---- MODULE Spec2Model ----
(***************************************************************************)
(* A model of libknet's compression layer (libknet/compress.c): the table  *)
(* of compression modules, the lookups over it, compress_init, and the     *)
(* compress / decompress dispatch.                                         *)
(*                                                                         *)
(* The per-algorithm hooks (zlib_compress, lzo2_init, ...) live in other   *)
(* files; here a hook is a name, and what a hook returns is an input of    *)
(* the call that invokes it.                                               *)
(***************************************************************************)
EXTENDS Integers, Sequences, FiniteSets, TLC

VARIABLES
    compress_modules_cmds,  \* the module table, last entry NULL/NULL/NULL
    knet_h,                 \* the handle's compress_* fields
    errno,                  \* the calling thread's errno
    last,                   \* the last call made: arguments, result, hooks invoked
    crashed,                \* the process died in a call through a bad pointer
    lib,                    \* the handle's hosts, links and forwarding flag
    libcall,                \* the last step on the handle: arguments, result, callbacks
    notes,                  \* per host, the last status-change callback since it was added
    nodes,                  \* the handles of the two-node test, by node id
    net,                    \* the data packets in flight between the nodes
    test                    \* the two-node test: its main thread and receive threads

cvars == <<compress_modules_cmds, knet_h, last, crashed>>
hvars == <<lib, libcall, notes>>
dvars == <<nodes, net, test>>
vars == <<compress_modules_cmds, knet_h, errno, last, crashed, lib, libcall, notes,
          nodes, net, test>>

----------------------------------------------------------------------------
(* Bounds of the model *)

\* how far past a limit (table size, threshold) the inputs go
MaxOver == 2
\* compression levels tried are 0 .. MaxLevel
MaxLevel == 1
\* The compile-time limit on compress methods. internals.h, which sets it, is
\* not among the sources modelled; compress.c only compares it with indices
\* of the table, so the model takes a small value and tables around it.
KNET_MAX_COMPRESS_METHODS == 8

(* Program constants *)

EINVAL == 22
KNET_MAX_PACKET_SIZE == 65536
KNET_COMPRESS_THRESHOLD == 100

\* a NULL pointer (a model_name or a hook that is not set)
NULL == "(null)"
\* what a read past the end of the table yields: not a hook of any module
WILD == "(wild)"

----------------------------------------------------------------------------
(* The module table *)

Cmd(name, init, fini, val, comp, decomp) ==
    [model_name |-> name, init |-> init, fini |-> fini,
     val_level |-> val, compress |-> comp, decompress |-> decomp]

BaseCmds ==
    << Cmd("none", NULL, NULL, NULL, NULL, NULL),
       Cmd("zlib", NULL, NULL, "zlib_val_level", "zlib_compress", "zlib_decompress"),
       Cmd("lz4", NULL, NULL, "lz4_val_level", "lz4_compress", "lz4_decompress"),
       Cmd("lz4hc", NULL, NULL, "lz4hc_val_level", "lz4hc_compress", "lz4_decompress"),
       Cmd("lzo2", "lzo2_init", "lzo2_fini", "lzo2_val_level", "lzo2_compress", "lzo2_decompress"),
       Cmd("lzma", NULL, NULL, "lzma_val_level", "lzma_compress", "lzma_decompress"),
       Cmd("bzip2", NULL, NULL, "bzip2_val_level", "bzip2_compress", "bzip2_decompress") >>

LastCmd == Cmd(NULL, NULL, NULL, NULL, NULL, NULL)

\* A module added "before the last NULL/NULL/NULL", at index idx: one with
\* all five hooks, as lzo2 has.
AddedName(idx) == "ext" \o ToString(idx)

AddedCmd(idx) ==
    Cmd(AddedName(idx), AddedName(idx) \o "_init", AddedName(idx) \o "_fini",
        AddedName(idx) \o "_val_level", AddedName(idx) \o "_compress",
        AddedName(idx) \o "_decompress")

\* The table of a build with n named modules: the seven of the source, then
\* the added ones, then the terminator.
CmdsTable(n) ==
    BaseCmds \o [i \in 1..(n - Len(BaseCmds)) |-> AddedCmd(Len(BaseCmds) + i - 1)]
             \o <<LastCmd>>

\* The builds considered: the source's table, and tables grown past
\* KNET_MAX_COMPRESS_METHODS entries.
TableSizes ==
    {Len(BaseCmds)} \cup {KNET_MAX_COMPRESS_METHODS + d : d \in 1..MaxOver}

\* compress_modules_cmds[idx], for an idx inside the array
CmdAt(idx) == compress_modules_cmds[idx + 1]

\* number of array elements, terminator included
TableLen == Len(compress_modules_cmds)

InTable(idx) == idx >= 0 /\ idx < TableLen

----------------------------------------------------------------------------
(* Lookups *)

strcmp(a, b) == IF a = b THEN 0 ELSE 1

get_model_by_idx(idx) == CmdAt(idx).model_name

RECURSIVE get_model_loop(_, _)
get_model_loop(idx, model) ==
    IF CmdAt(idx).model_name # NULL
    THEN IF strcmp(CmdAt(idx).model_name, model) = 0
         THEN idx
         ELSE get_model_loop(idx + 1, model)
    ELSE -1

\* get_model returning 0 where it has to return -1
get_model_NotFoundIsNone(model) ==
    IF get_model_loop(0, model) < 0 THEN 0 ELSE get_model_loop(0, model)

\* get_model starting its search after the first entry
get_model_SkipsFirst(model) == get_model_loop(1, model)

get_model(model) == get_model_loop(0, model)

RECURSIVE get_max_model_loop(_)
get_max_model_loop(idx) ==
    IF CmdAt(idx).model_name # NULL
    THEN get_max_model_loop(idx + 1)
    ELSE idx

get_max_model == get_max_model_loop(0) - 1

----------------------------------------------------------------------------
(* Calls of hooks *)

\* One call through a function pointer of the table: which hook of which
\* index, and the pointer that was called.
HookCall(hook, idx, fn) == [hook |-> hook, idx |-> idx, fn |-> fn]

\* What a call of compress.c gives back: its return value, the errno it
\* leaves, the handle it leaves, the hooks it called, whether it died.
Result(ret, err, h, calls, died) ==
    [ret |-> ret, errno |-> err, knet_h |-> h, calls |-> calls, died |-> died]

\* No module's init hook fails
NoFail == -1

\* val_level asking the module selected on the handle
val_level_OfSelected(h, compress_model, compress_level, rejecting) ==
    [call |-> HookCall("val_level", h.compress_model,
                       CmdAt(h.compress_model).val_level),
     ret |-> IF h.compress_model \in rejecting THEN -1 ELSE 0]

val_level(h, compress_model, compress_level, rejecting) ==
    [call |-> HookCall("val_level", compress_model, CmdAt(compress_model).val_level),
     ret |-> IF compress_model \in rejecting THEN -1 ELSE 0]

----------------------------------------------------------------------------
(* compress_init *)

TooManyMethods(max_model) == max_model > KNET_MAX_COMPRESS_METHODS

\* the threshold check left out
ThresholdTooHigh_Never(threshold) == FALSE

\* the threshold check off by one
ThresholdTooHigh_OffByOne(threshold) == threshold > KNET_MAX_PACKET_SIZE + 1

ThresholdTooHigh(threshold) == threshold > KNET_MAX_PACKET_SIZE

\* a zero threshold stored as it is
NewThreshold_NoDefault(threshold) == threshold

NewThreshold(threshold) ==
    IF threshold = 0 THEN KNET_COMPRESS_THRESHOLD ELSE threshold

\* the loop over the table when no cfg is given; fail_at is the index whose
\* init hook returns < 0 (NoFail: none does)
RECURSIVE init_all_loop(_, _, _, _, _)
init_all_loop(idx, h, err, fail_at, calls) ==
    IF CmdAt(idx).model_name # NULL
    THEN IF CmdAt(idx).init # NULL
         THEN LET called == Append(calls, HookCall("init", idx, CmdAt(idx).init))
              IN  IF idx = fail_at
                  THEN Result(-1, EINVAL, h, called, FALSE)
                  ELSE init_all_loop(idx + 1, h, err, fail_at, called)
         ELSE init_all_loop(idx + 1, h, err, fail_at, calls)
    ELSE Result(0, err, h, calls, FALSE)

\* the loop not looking at what an init hook returns
init_all_IgnoresFailure(h, err, fail_at) ==
    init_all_loop(0, h, err, NoFail, <<>>)

init_all(h, err, fail_at) == init_all_loop(0, h, err, fail_at, <<>>)

\* the part with the level and threshold stored before they are validated
init_cfg_StoresFirst(h, err, cfg, rejecting) ==
    LET cmp_model == get_model(cfg.compress_model)
        h1 == [h EXCEPT !.compress_threshold = NewThreshold(cfg.compress_threshold),
                        !.compress_level = cfg.compress_level]
    IN
    IF cmp_model < 0
    THEN Result(-1, EINVAL, h, <<>>, FALSE)
    ELSE IF cmp_model > 0
    THEN LET v == val_level(h, cmp_model, cfg.compress_level, rejecting) IN
         IF v.ret < 0
         THEN Result(-1, EINVAL, h1, <<v.call>>, FALSE)
         ELSE IF ThresholdTooHigh(cfg.compress_threshold)
         THEN Result(-1, EINVAL, h1, <<v.call>>, FALSE)
         ELSE Result(0, err, [h1 EXCEPT !.compress_model = cmp_model], <<v.call>>, FALSE)
    ELSE Result(0, err,
                [h EXCEPT !.compress_model = cmp_model,
                          !.compress_level = cfg.compress_level],
                <<>>, FALSE)

\* the part of compress_init that runs when a cfg is given
init_cfg(h, err, cfg, rejecting) ==
    LET cmp_model == get_model(cfg.compress_model) IN
    IF cmp_model < 0
    THEN Result(-1, EINVAL, h, <<>>, FALSE)
    ELSE IF cmp_model > 0
    THEN LET v == val_level(h, cmp_model, cfg.compress_level, rejecting) IN
         IF v.ret < 0
         THEN Result(-1, EINVAL, h, <<v.call>>, FALSE)
         ELSE IF ThresholdTooHigh(cfg.compress_threshold)
         THEN Result(-1, EINVAL, h, <<v.call>>, FALSE)
         ELSE Result(0, err,
                     [h EXCEPT !.compress_threshold = NewThreshold(cfg.compress_threshold),
                               !.compress_model = cmp_model,
                               !.compress_level = cfg.compress_level],
                     <<v.call>>, FALSE)
    ELSE Result(0, err,
                [h EXCEPT !.compress_model = cmp_model,
                          !.compress_level = cfg.compress_level],
                <<>>, FALSE)

\* A cfg pointer: NullCfg, or CfgPtr(c) pointing to the cfg c
NullCfg == <<>>
CfgPtr(c) == <<c>>

compress_init(h, err, knet_handle_compress_cfg, fail_at, rejecting) ==
    LET h1 == [h EXCEPT !.compress_max_model = get_max_model] IN
    IF TooManyMethods(h1.compress_max_model)
    THEN Result(-1, EINVAL, h1, <<>>, FALSE)
    ELSE IF knet_handle_compress_cfg = NullCfg
    THEN init_all(h1, err, fail_at)
    ELSE init_cfg(h1, err, knet_handle_compress_cfg[1], rejecting)

\* the loop of compress_fini; what a fini hook returns is not looked at
RECURSIVE fini_loop(_, _)
fini_loop(idx, calls) ==
    IF CmdAt(idx).model_name # NULL /\ idx < KNET_MAX_COMPRESS_METHODS
    THEN IF CmdAt(idx).fini # NULL
         THEN fini_loop(idx + 1, Append(calls, HookCall("fini", idx, CmdAt(idx).fini)))
         ELSE fini_loop(idx + 1, calls)
    ELSE calls

\* compress_fini writing the default threshold to the handle
compress_fini_ResetsThreshold(h, err) ==
    Result(0, err, [h EXCEPT !.compress_threshold = KNET_COMPRESS_THRESHOLD],
           fini_loop(0, <<>>), FALSE)

\* compress_fini returns nothing; ret is 0 in its Result
compress_fini(h, err) == Result(0, err, h, fini_loop(0, <<>>), FALSE)

----------------------------------------------------------------------------
(* compress and decompress *)

\* Calling fn: a NULL pointer kills the process; a pointer read from outside
\* the table may do either; a module's hook returns hook_ret.
Dispatch(h, err, hook, idx, fn, hook_ret, wild_dies) ==
    IF fn = NULL
    THEN Result(hook_ret, err, h, <<HookCall(hook, idx, fn)>>, TRUE)
    ELSE IF fn = WILD
    THEN Result(hook_ret, err, h, <<HookCall(hook, idx, fn)>>, wild_dies)
    ELSE Result(hook_ret, err, h, <<HookCall(hook, idx, fn)>>, FALSE)

\* the index compress() reads the table at
CompressIdx(h) == h.compress_model

\* decompress() reading the table at the handle's own selection
DecompressIdx_OfHandle(h, compress_model) == h.compress_model

\* the index decompress() reads the table at
DecompressIdx(h, compress_model) == compress_model

compress(h, err, hook_ret, wild_fn, wild_dies) ==
    LET idx == CompressIdx(h)
        fn == IF InTable(idx) THEN CmdAt(idx).compress ELSE wild_fn
    IN  Dispatch(h, err, "compress", idx, fn, hook_ret, wild_dies)

decompress(h, err, compress_model, hook_ret, wild_fn, wild_dies) ==
    LET idx == DecompressIdx(h, compress_model)
        fn == IF InTable(idx) THEN CmdAt(idx).decompress ELSE wild_fn
    IN  Dispatch(h, err, "decompress", idx, fn, hook_ret, wild_dies)

----------------------------------------------------------------------------
(* Inputs *)

\* highest index of a named module, and the set of their indices
MaxIdx == TableLen - 2
ModuleIdxs == 0..MaxIdx

\* The index of the module called name, -1 if there is none: what a lookup
\* has to find, stated without the loop.
RegistryIndex(name) ==
    IF \E i \in ModuleIdxs : CmdAt(i).model_name = name
    THEN CHOOSE i \in ModuleIdxs : CmdAt(i).model_name = name
    ELSE -1

Registered(name) == \E i \in ModuleIdxs : CmdAt(i).model_name = name

\* names no module has: the empty string, a name in the wrong case, and the
\* terminator's
UnknownNames == {"", "ZLIB", NULL}

\* names looked up: those of all modules of the table, and the unknown ones
LookupNames == {CmdAt(i).model_name : i \in ModuleIdxs} \cup UnknownNames

\* Names given in a cfg: one module of each shape ("none" without hooks,
\* zlib with the three codec hooks, lz4hc sharing lz4's decompress, lzo2 with
\* init and fini), the last module of the table, and two unknown names.
InputNames ==
    {"none", "zlib", "lz4hc", "lzo2", CmdAt(MaxIdx).model_name, "", NULL}

Levels == 0..MaxLevel

Thresholds ==
    {0} \cup {KNET_MAX_PACKET_SIZE - 1 + d : d \in 1..MaxOver}

Cfgs ==
    [compress_model : InputNames, compress_level : Levels,
     compress_threshold : Thresholds]

\* the init hooks that may fail
FailChoices == {NoFail} \cup {i \in ModuleIdxs : CmdAt(i).init # NULL}

\* The modules whose val_level hook rejects the level of the cfg. A call that
\* names a module with a val_level hook could consult that hook or the hook
\* of the module selected on the handle: any of the two may reject.
RejectChoices(h, cfg) ==
    IF RegistryIndex(cfg.compress_model) > 0
    THEN SUBSET ({RegistryIndex(cfg.compress_model), h.compress_model} \ {0})
    ELSE {{}}

\* what a read of the table at idx may yield when idx is outside the array
WildFns(idx) == IF InTable(idx) THEN {WILD} ELSE {NULL, WILD}

\* whether the call through such a pointer kills the process
WildDies(idx) == IF InTable(idx) THEN {FALSE} ELSE BOOLEAN

\* indices a received header may carry
DecompressIdxs ==
    {0, 1, 3, MaxIdx, MaxIdx + 1, MaxIdx + 2}

HookRets == {-1, 0}

----------------------------------------------------------------------------
(* The handle's hosts and links, as the test suite drives them *)

(***************************************************************************)
(* tests/test-common.c and tests/fun_dynamic_check.c call the library's    *)
(* host and link operations, whose code is in files not modelled here.     *)
(* Those operations are modelled from the library's specification: a link  *)
(* is unconfigured, disabled, probing (enabled, not connected) or          *)
(* connected; hosts and links are changed by the caller, the connected     *)
(* flag by the heartbeat worker, and a host's reachable flag by the        *)
(* dst-link worker, which the link-state writers wake.                     *)
(***************************************************************************)

\* host ids are 0 .. KNET_MAX_HOST - 1 (65536 in libknet.h)
KNET_MAX_HOST == 3
\* link slots of a host are 0 .. KNET_MAX_LINK - 1 (8 in libknet.h)
KNET_MAX_LINK == 4
\* link slots the callers of LinkSpec configure are 0 .. MaxLink - 1
MaxLink == 2
\* local addresses are 127.0.0.1 .. 127.0.0.MaxAddr
MaxAddr == 2

EBUSY == 16
EEXIST == 17

HostIds == 0..(KNET_MAX_HOST - 1)
LinkIds == 0..(KNET_MAX_LINK - 1)

\* a link slot nobody configured
NoLink == [configured |-> FALSE, enabled |-> FALSE, connected |-> FALSE,
           src_addr |-> 0, dst_addr |-> 0, dynamic |-> FALSE]

\* host_index[i] is NULL (NoHost) or points to a host (HostPtr)
NoHost == <<>>
HostPtr(host) == <<host>>
NewHost == [link |-> [l \in LinkIds |-> NoLink],
            status |-> [reachable |-> FALSE]]

\* the handle knet_handle_new returns
NewHandle == [host_index |-> [i \in HostIds |-> NoHost],
              enabled |-> FALSE,      \* the forwarding flag
              dst_pending |-> {},     \* hosts the dst-link worker was woken for
              tx_seq |-> 0,           \* sequence number of the last data packet sent
              window |-> <<>>,        \* the fingerprints delivered last, oldest first
              freed |-> FALSE]

HostExists(h, host_id) == host_id \in HostIds /\ h.host_index[host_id] # NoHost
HostAt(h, host_id) == h.host_index[host_id][1]
LinkAt(h, host_id, link_id) == HostAt(h, host_id).link[link_id]

WithHost(h, host_id, host) ==
    [h EXCEPT !.host_index[host_id] = HostPtr(host)]
WithLink(h, host_id, link_id, l) ==
    WithHost(h, host_id, [HostAt(h, host_id) EXCEPT !.link[link_id] = l])
\* a link-state writer signalling the dst-link worker
Woken(h, host_id) == [h EXCEPT !.dst_pending = @ \cup {host_id}]

\* what a library call gives back: its return value, errno and the handle
LibResult(ret, err, h) == [ret |-> ret, errno |-> err, h |-> h]
Ok(h) == LibResult(0, 0, h)
Fail(err, h) == LibResult(-1, err, h)

\* setfwd taking the links down with the data path
knet_handle_setfwd_DropsLinks(h, enabled) ==
    Ok([h EXCEPT !.enabled = enabled,
                 !.host_index = [i \in HostIds |->
                     IF h.host_index[i] = NoHost \/ enabled THEN h.host_index[i]
                     ELSE HostPtr([h.host_index[i][1] EXCEPT
                             !.link = [l \in LinkIds |-> [@[l] EXCEPT !.connected = FALSE]]])]])

knet_handle_setfwd(h, enabled) == Ok([h EXCEPT !.enabled = enabled])

knet_host_add(h, host_id) ==
    IF host_id \notin HostIds THEN Fail(EINVAL, h)
    ELSE IF HostExists(h, host_id) THEN Fail(EEXIST, h)
    ELSE Ok(WithHost(h, host_id, NewHost))

HasConfiguredLink(h, host_id) ==
    \E l \in LinkIds : LinkAt(h, host_id, l).configured

knet_host_remove(h, host_id) ==
    IF ~HostExists(h, host_id) THEN Fail(EINVAL, h)
    ELSE IF HasConfiguredLink(h, host_id) THEN Fail(EBUSY, h)
    ELSE Ok([h EXCEPT !.host_index[host_id] = NoHost,
                      !.dst_pending = @ \ {host_id}])

\* the ids of the hosts, in ascending order
RECURSIVE host_list_from(_, _)
host_list_from(h, i) ==
    IF i >= KNET_MAX_HOST THEN <<>>
    ELSE IF HostExists(h, i) THEN <<i>> \o host_list_from(h, i + 1)
    ELSE host_list_from(h, i + 1)

knet_host_get_host_list(h) == host_list_from(h, 0)

\* the configured link slots of a host, in ascending order
RECURSIVE link_list_from(_, _, _)
link_list_from(h, host_id, l) ==
    IF l >= KNET_MAX_LINK THEN <<>>
    ELSE IF LinkAt(h, host_id, l).configured
    THEN <<l>> \o link_list_from(h, host_id, l + 1)
    ELSE link_list_from(h, host_id, l + 1)

knet_link_get_link_list(h, host_id) == link_list_from(h, host_id, 0)

\* the link may be named: the host exists and the slot is one of its slots
LinkNamed(h, host_id, link_id) ==
    HostExists(h, host_id) /\ link_id \in LinkIds

\* a NULL dst_addr (NoAddr) makes the link dynamic
NoAddr == 0

knet_link_set_config(h, host_id, link_id, src_addr, dst_addr) ==
    IF ~LinkNamed(h, host_id, link_id) THEN Fail(EINVAL, h)
    ELSE IF LinkAt(h, host_id, link_id).configured THEN Fail(EBUSY, h)
    ELSE Ok(WithLink(h, host_id, link_id,
                     [configured |-> TRUE, enabled |-> FALSE, connected |-> FALSE,
                      src_addr |-> src_addr, dst_addr |-> dst_addr,
                      dynamic |-> dst_addr = NoAddr]))

\* knet_link_clear_config not looking at the enabled flag
knet_link_clear_config_Enabled(h, host_id, link_id) ==
    IF ~LinkNamed(h, host_id, link_id) THEN Fail(EINVAL, h)
    ELSE IF ~LinkAt(h, host_id, link_id).configured THEN Ok(h)
    ELSE Ok(Woken(WithLink(h, host_id, link_id, NoLink), host_id))

knet_link_clear_config(h, host_id, link_id) ==
    IF ~LinkNamed(h, host_id, link_id) THEN Fail(EINVAL, h)
    ELSE IF ~LinkAt(h, host_id, link_id).configured THEN Ok(h)
    ELSE IF LinkAt(h, host_id, link_id).enabled THEN Fail(EBUSY, h)
    ELSE Ok(WithLink(h, host_id, link_id, NoLink))

\* knet_link_set_enable leaving the connected flag as it was
knet_link_set_enable_KeepsConnected(h, host_id, link_id, enabled) ==
    IF ~LinkNamed(h, host_id, link_id) THEN Fail(EINVAL, h)
    ELSE IF ~LinkAt(h, host_id, link_id).configured THEN Fail(EINVAL, h)
    ELSE IF LinkAt(h, host_id, link_id).enabled = enabled THEN Ok(h)
    ELSE Ok(Woken(WithLink(h, host_id, link_id,
                           [LinkAt(h, host_id, link_id) EXCEPT !.enabled = enabled]),
                  host_id))

\* enabling starts the probing; disabling takes the link out of use
knet_link_set_enable(h, host_id, link_id, enabled) ==
    IF ~LinkNamed(h, host_id, link_id) THEN Fail(EINVAL, h)
    ELSE IF ~LinkAt(h, host_id, link_id).configured THEN Fail(EINVAL, h)
    ELSE IF LinkAt(h, host_id, link_id).enabled = enabled THEN Ok(h)
    ELSE Ok(Woken(WithLink(h, host_id, link_id,
                           [LinkAt(h, host_id, link_id)
                               EXCEPT !.enabled = enabled, !.connected = FALSE]),
                  host_id))

\* ret is 0 and enabled the flag, or ret is -1
knet_link_get_enable(h, host_id, link_id) ==
    IF ~LinkNamed(h, host_id, link_id) \/ ~LinkAt(h, host_id, link_id).configured
    THEN [ret |-> -1, errno |-> EINVAL, enabled |-> FALSE]
    ELSE [ret |-> 0, errno |-> 0, enabled |-> LinkAt(h, host_id, link_id).enabled]

\* knet_handle_free: the hosts must have been removed
knet_handle_free(h) ==
    IF \E i \in HostIds : HostExists(h, i) THEN Fail(EBUSY, h)
    ELSE Ok([h EXCEPT !.freed = TRUE])

(* The workers *)

HasConnectedLink(h, host_id) ==
    \E l \in LinkIds : LinkAt(h, host_id, l).connected

\* the heartbeat worker: the first valid pong on a probing link
pong_received(h, host_id, link_id) ==
    Woken(WithLink(h, host_id, link_id,
                   [LinkAt(h, host_id, link_id) EXCEPT !.connected = TRUE]),
          host_id)

\* the heartbeat worker: the pongs of a connected link stayed out
pong_timeout(h, host_id, link_id) ==
    Woken(WithLink(h, host_id, link_id,
                   [LinkAt(h, host_id, link_id) EXCEPT !.connected = FALSE]),
          host_id)

\* a call of the status-change callback
Notification(host_id, reachable) == [host_id |-> host_id, reachable |-> reachable]

\* the dst-link worker calling the callback whenever it was woken
dst_link_update_AlwaysNotifies(h, host_id) ==
    LET now == HasConnectedLink(h, host_id) IN
    [h |-> [WithHost(h, host_id, [HostAt(h, host_id) EXCEPT !.status.reachable = now])
               EXCEPT !.dst_pending = @ \ {host_id}],
     notified |-> <<Notification(host_id, now)>>]

\* the dst-link worker, woken for host_id: it recomputes the host's
\* reachable flag and calls the status-change callback if the flag changed
dst_link_update(h, host_id) ==
    LET now == HasConnectedLink(h, host_id)
        was == HostAt(h, host_id).status.reachable
    IN  [h |-> [WithHost(h, host_id, [HostAt(h, host_id) EXCEPT !.status.reachable = now])
                   EXCEPT !.dst_pending = @ \ {host_id}],
         notified |-> IF now # was THEN <<Notification(host_id, now)>> ELSE <<>>]

(* The data path: TX, the network, RX and the dedup window *)

\* the entries of the ring of fingerprints delivered last
DedupWindow == 5

\* the duplicates the network may hold at a time
MaxDup == 1

\* what identifies a data packet
Fingerprint(sender, seq) == [sender |-> sender, type |-> "data", seq |-> seq]

\* a datagram on its way to host dst: copy says which one it is of those
\* that carry the same packet
Packet(fp, dst, payload, copy) ==
    [fp |-> fp, dst |-> dst, payload |-> payload, copy |-> copy]

\* the links to host_id that carry data
ConnectedLinks(h, host_id) ==
    IF HostExists(h, host_id)
    THEN {l \in LinkIds : LinkAt(h, host_id, l).connected}
    ELSE {}

\* the TX worker sending to every host id whatever the filter said
knet_send_Broadcast(h, this_host_id, dst_host_ids, payload) ==
    [h |-> [h EXCEPT !.tx_seq = @ + 1],
     sent |-> {Packet(Fingerprint(this_host_id, h.tx_seq + 1), d, payload, 1) :
                  d \in 1..(KNET_MAX_HOST - 1)}]

\* the TX worker, all-parallel policy: the packet takes the next sequence
\* number and goes out once on each connected link of each destination;
\* with forwarding off, or to no destination, nothing is sent
knet_send(h, this_host_id, dst_host_ids, payload) ==
    IF ~h.enabled THEN [h |-> h, sent |-> {}]
    ELSE [h |-> [h EXCEPT !.tx_seq = @ + 1],
          sent |-> {Packet(Fingerprint(this_host_id, h.tx_seq + 1),
                           dst_host_ids[k], payload, 1) :
                       k \in {j \in 1..Len(dst_host_ids) :
                                 ConnectedLinks(h, dst_host_ids[j]) # {}}}]

InWindow(h, fp) == \E k \in 1..Len(h.window) : h.window[k] = fp

\* the ring takes a fingerprint and, when full, drops its oldest
window_insert(window, fp) ==
    IF Len(window) >= DedupWindow THEN Append(Tail(window), fp)
    ELSE Append(window, fp)

\* the endpoint of an enabled link to the sender takes the datagram
Receivable(h, p) ==
    /\ ~h.freed
    /\ HostExists(h, p.fp.sender)
    /\ \E l \in LinkIds : LinkAt(h, p.fp.sender, l).enabled

\* the RX worker delivering every packet it reads
rx_packet_NoDedup(h, p) ==
    IF ~Receivable(h, p) \/ ~h.enabled THEN [h |-> h, delivered |-> <<>>]
    ELSE [h |-> [h EXCEPT !.window = window_insert(@, p.fp)],
          delivered |-> <<p.payload>>]

\* the RX worker: a datagram that no endpoint takes, or that arrives with
\* forwarding off, is dropped; a fingerprint inside the window suppresses
\* delivery; any other packet is delivered and its fingerprint kept
rx_packet(h, p) ==
    IF ~Receivable(h, p) \/ ~h.enabled THEN [h |-> h, delivered |-> <<>>]
    ELSE IF InWindow(h, p.fp) THEN [h |-> h, delivered |-> <<>>]
    ELSE [h |-> [h EXCEPT !.window = window_insert(@, p.fp)],
          delivered |-> <<p.payload>>]

(* tests/test-common.c *)

\* a library call knet_handle_stop made, and what held when it made it: the
\* forwarding flag, whether the link named was enabled, whether the host
\* named had a configured link, and the hosts there were
LibCall(fn, h, host_id, link_id, ret) ==
    [fn |-> fn, host_id |-> host_id, link_id |-> link_id, ret |-> ret,
     fwd |-> h.enabled,
     enabled |-> LinkNamed(h, host_id, link_id) /\ LinkAt(h, host_id, link_id).enabled,
     configured |-> HostExists(h, host_id) /\ HasConfiguredLink(h, host_id),
     hosts |-> {i \in HostIds : HostExists(h, i)}]

StopResult(ret, err, h, trace) == [ret |-> ret, errno |-> err, h |-> h, trace |-> trace]

\* the trace with one more call, made on h and answered r
Logged(trace, fn, h, host_id, link_id, r) ==
    Append(trace, LibCall(fn, h, host_id, link_id, r.ret))

RECURSIVE stop_links(_, _, _, _, _)

\* knet_link_clear_config(knet_h, host_ids[i], j) answered cc, which is not
\* looked at; on to the next j
stop_link_cleared(h, host_id, link_ids, j, trace, cc) ==
    stop_links(cc.h, host_id, link_ids, j + 1,
               Logged(trace, "knet_link_clear_config", h, host_id, j, cc))

stop_link_clear(h, host_id, link_ids, j, trace) ==
    stop_link_cleared(h, host_id, link_ids, j, trace,
                      knet_link_clear_config(h, host_id, j))

\* knet_link_set_enable(knet_h, host_ids[i], j, 0) answered se
stop_link_disabled(host_id, link_ids, j, trace, se) ==
    IF se.ret # 0 THEN StopResult(-1, se.errno, se.h, trace)
    ELSE stop_link_clear(se.h, host_id, link_ids, j, trace)

stop_link_disable(h, host_id, link_ids, j, trace, se) ==
    stop_link_disabled(host_id, link_ids, j,
                       Logged(trace, "knet_link_set_enable", h, host_id, j, se), se)

\* knet_link_get_enable(knet_h, host_ids[i], link_ids[j], &enabled) answered ge
stop_link_asked(h, host_id, link_ids, j, trace, ge) ==
    IF ge.ret # 0 THEN StopResult(-1, ge.errno, h, trace)
    ELSE IF ge.enabled
    THEN stop_link_disable(h, host_id, link_ids, j, trace,
                           knet_link_set_enable(h, host_id, j, FALSE))
    ELSE stop_link_clear(h, host_id, link_ids, j, trace)

stop_link_ask(h, host_id, link_ids, j, trace, ge) ==
    stop_link_asked(h, host_id, link_ids, j,
                    Logged(trace, "knet_link_get_enable", h, host_id, link_ids[j + 1], ge),
                    ge)

\* the inner loop of knet_handle_stop, at index j of link_ids
stop_links(h, host_id, link_ids, j, trace) ==
    IF j >= Len(link_ids) THEN StopResult(0, 0, h, trace)
    ELSE stop_link_ask(h, host_id, link_ids, j, trace,
                       knet_link_get_enable(h, host_id, link_ids[j + 1]))

RECURSIVE stop_hosts(_, _, _, _)

\* knet_host_remove(knet_h, host_ids[i]) answered rm
stop_host_removed(host_ids, i, trace, rm) ==
    IF rm.ret < 0 THEN StopResult(-1, rm.errno, rm.h, trace)
    ELSE stop_hosts(rm.h, host_ids, i + 1, trace)

stop_host_remove(h, host_ids, i, trace, rm) ==
    stop_host_removed(host_ids, i,
                      Logged(trace, "knet_host_remove", h, host_ids[i + 1], 0, rm), rm)

\* the inner loop ended with links
stop_host_links(host_ids, i, links) ==
    IF links.ret # 0 THEN links
    ELSE stop_host_remove(links.h, host_ids, i, links.trace,
                          knet_host_remove(links.h, host_ids[i + 1]))

\* the outer loop of knet_handle_stop, at index i of host_ids
stop_hosts(h, host_ids, i, trace) ==
    IF i >= Len(host_ids) THEN StopResult(0, 0, h, trace)
    ELSE stop_host_links(host_ids, i,
            stop_links(h, host_ids[i + 1], knet_link_get_link_list(h, host_ids[i + 1]), 0,
                       Logged(trace, "knet_link_get_link_list", h, host_ids[i + 1], 0, Ok(h))))

\* knet_handle_free(knet_h) answered free
stop_freed(trace, free) ==
    IF free.ret # 0 THEN StopResult(-1, free.errno, free.h, trace)
    ELSE StopResult(0, free.errno, free.h, trace)

\* the outer loop ended with hosts
stop_free(hosts) ==
    IF hosts.ret # 0 THEN hosts
    ELSE stop_freed(Logged(hosts.trace, "knet_handle_free", hosts.h, 0, 0,
                           knet_handle_free(hosts.h)),
                    knet_handle_free(hosts.h))

\* knet_handle_setfwd(knet_h, 0) answered fwd
stop_setfwd(trace, fwd) ==
    IF fwd.ret < 0 THEN StopResult(-1, fwd.errno, fwd.h, trace)
    ELSE stop_free(stop_hosts(fwd.h, knet_host_get_host_list(fwd.h), 0,
                              Logged(trace, "knet_host_get_host_list", fwd.h, 0, 0, Ok(fwd.h))))

\* a handle pointer: NULL (NullHandle) or HandlePtr(h)
NullHandle == <<>>
HandlePtr(h) == <<h>>

knet_handle_stop(knet_hp) ==
    IF knet_hp = NullHandle THEN StopResult(-1, EINVAL, NewHandle, <<>>)
    ELSE stop_setfwd(Logged(<<>>, "knet_handle_setfwd", knet_hp[1], 0, 0,
                            knet_handle_setfwd(knet_hp[1], FALSE)),
                     knet_handle_setfwd(knet_hp[1], FALSE))

\* count_nodes: the hosts of the handle whose reachable flag is set
RECURSIVE count_nodes_from(_, _)
count_nodes_from(h, i) ==
    IF i >= KNET_MAX_HOST THEN 0
    ELSE (IF h.host_index[i] # NoHost /\ HostAt(h, i).status.reachable THEN 1 ELSE 0)
         + count_nodes_from(h, i + 1)

\* count_nodes not looking at the reachable flag
count_nodes_AllHosts(h) == Cardinality({i \in HostIds : HostExists(h, i)})

count_nodes(h) == count_nodes_from(h, 0)

----------------------------------------------------------------------------
(* The state machine *)

\* The record of a call: the function called, its cfg argument, its index
\* argument (decompress, get_model_by_idx), its name argument or result
\* (get_model, get_model_by_idx), what the hooks were set to answer, the
\* handle before the call, the value returned and the hooks called.
CallRecord(op, cfg, idx, model, fail_at, rejecting, ret, calls) ==
    [op |-> op, cfg |-> cfg, idx |-> idx, model |-> model, fail_at |-> fail_at,
     rejecting |-> rejecting, before |-> knet_h, ret |-> ret, calls |-> calls]

NoCall == CallRecord("none", NullCfg, -1, NULL, NoFail, {}, 0, <<>>)

\* the record of the last step on the handle: the operation, its host, link
\* and other argument, what it returned, the callbacks it made and (for
\* knet_handle_stop) the library calls it made
LibCallRecord(op, host_id, link_id, arg, ret, err, notified, trace) ==
    [op |-> op, host_id |-> host_id, link_id |-> link_id, arg |-> arg,
     ret |-> ret, errno |-> err, notified |-> notified, trace |-> trace]

NoLibCall == LibCallRecord("none", 0, 0, 0, 0, 0, <<>>, <<>>)

\* no callback was made for any host yet
NoNotes == [i \in HostIds |-> <<>>]

\* the handle is not in use
LibIdle ==
    /\ lib = NewHandle
    /\ libcall = NoLibCall
    /\ notes = NoNotes

\* the two-node test is not running
DynIdle ==
    /\ nodes = <<>>
    /\ net = {}
    /\ test = <<>>

\* the compression layer is not in use
CompressIdle ==
    /\ compress_modules_cmds = CmdsTable(Len(BaseCmds))
    /\ knet_h = [compress_model |-> 0, compress_max_model |-> 0,
                 compress_level |-> 0, compress_threshold |-> 0]
    /\ last = NoCall
    /\ crashed = FALSE

Init ==
    /\ compress_modules_cmds \in {CmdsTable(n) : n \in TableSizes}
    /\ knet_h = [compress_model |-> 0, compress_max_model |-> 0,
                 compress_level |-> 0, compress_threshold |-> 0]
    /\ errno = 0
    /\ last = NoCall
    /\ crashed = FALSE
    /\ LibIdle
    /\ DynIdle

Returned(op, cfg, idx, fail_at, rejecting, r) ==
    /\ knet_h' = r.knet_h
    /\ errno' = r.errno
    /\ crashed' = r.died
    /\ last' = CallRecord(op, cfg, idx, NULL, fail_at, rejecting, r.ret, r.calls)
    /\ UNCHANGED <<compress_modules_cmds, hvars, dvars>>

CompressInitNoCfg ==
    /\ ~crashed
    /\ \E fail_at \in FailChoices :
          Returned("compress_init", NullCfg, -1, fail_at, {},
                   compress_init(knet_h, errno, NullCfg, fail_at, {}))

CompressInitCfg ==
    /\ ~crashed
    /\ \E cfg \in Cfgs : \E rejecting \in RejectChoices(knet_h, cfg) :
          Returned("compress_init", CfgPtr(cfg), -1, NoFail, rejecting,
                   compress_init(knet_h, errno, CfgPtr(cfg), NoFail, rejecting))

Compress ==
    /\ ~crashed
    /\ \E hook_ret \in HookRets :
        \E wild_fn \in WildFns(knet_h.compress_model) :
        \E wild_dies \in WildDies(knet_h.compress_model) :
          Returned("compress", NullCfg, -1, NoFail, {},
                   compress(knet_h, errno, hook_ret, wild_fn, wild_dies))

Decompress ==
    /\ ~crashed
    /\ \E compress_model \in DecompressIdxs, hook_ret \in HookRets :
        \E wild_fn \in WildFns(compress_model) :
        \E wild_dies \in WildDies(compress_model) :
          Returned("decompress", NullCfg, compress_model, NoFail, {},
                   decompress(knet_h, errno, compress_model, hook_ret, wild_fn, wild_dies))

CompressFini ==
    /\ ~crashed
    /\ Returned("compress_fini", NullCfg, -1, NoFail, {},
                compress_fini(knet_h, errno))

\* the test suite's lookup of the name of a module
GetModelByIdx ==
    /\ ~crashed
    /\ \E idx \in ModuleIdxs :
          last' = CallRecord("get_model_by_idx", NullCfg, idx,
                             get_model_by_idx(idx), NoFail, {}, 0, <<>>)
    /\ UNCHANGED <<compress_modules_cmds, knet_h, errno, crashed, hvars, dvars>>

\* a lookup of a name
GetModel ==
    /\ ~crashed
    /\ \E model \in LookupNames :
          last' = CallRecord("get_model", NullCfg, -1, model, NoFail, {},
                             get_model(model), <<>>)
    /\ UNCHANGED <<compress_modules_cmds, knet_h, errno, crashed, hvars, dvars>>

Next ==
    \/ CompressInitNoCfg
    \/ CompressInitCfg
    \/ Compress
    \/ Decompress
    \/ CompressFini
    \/ GetModelByIdx
    \/ GetModel

Spec == Init /\ [][Next]_vars

----------------------------------------------------------------------------
(* Properties *)

\* the last call was compress_init with / without a cfg
InitWithCfg == last.op = "compress_init" /\ last.cfg # NullCfg
InitNoCfg == last.op = "compress_init" /\ last.cfg = NullCfg
LastCfg == last.cfg[1]

\* the table has more named entries than compress_init accepts
Rejected == MaxIdx > KNET_MAX_COMPRESS_METHODS

SameSelection(a, b) ==
    /\ a.compress_model = b.compress_model
    /\ a.compress_level = b.compress_level
    /\ a.compress_threshold = b.compress_threshold

ConfigError == last.ret = -1 /\ errno = EINVAL

\* C1 (as claimed): after a successful compress_init with a cfg the handle
\* holds the index of the cfg's name, the cfg's level, and the cfg's threshold
\* or KNET_COMPRESS_THRESHOLD if that was zero, for every registered name.
C1_StoresNameLevelThreshold_AnyName ==
    (InitWithCfg /\ last.ret = 0) =>
        /\ knet_h.compress_model = RegistryIndex(LastCfg.compress_model)
        /\ knet_h.compress_level = LastCfg.compress_level
        /\ knet_h.compress_threshold =
              IF LastCfg.compress_threshold = 0
              THEN KNET_COMPRESS_THRESHOLD
              ELSE LastCfg.compress_threshold

\* C1 (amended): after a successful compress_init with a cfg the handle holds
\* the index of the cfg's name and the cfg's level; it holds the cfg's
\* threshold, or KNET_COMPRESS_THRESHOLD if that was zero, when the cfg names
\* a module other than "none", and the threshold it held before when the cfg
\* names "none".
C1_StoresNameLevelThreshold ==
    (InitWithCfg /\ last.ret = 0) =>
        /\ knet_h.compress_model = RegistryIndex(LastCfg.compress_model)
        /\ knet_h.compress_model >= 0
        /\ knet_h.compress_level = LastCfg.compress_level
        /\ knet_h.compress_threshold =
              IF knet_h.compress_model = 0
              THEN last.before.compress_threshold
              ELSE IF LastCfg.compress_threshold = 0
              THEN KNET_COMPRESS_THRESHOLD
              ELSE LastCfg.compress_threshold

\* a cfg with a zero threshold was stored over a different selection
C1_Witness ==
    /\ InitWithCfg /\ last.ret = 0
    /\ LastCfg.compress_model = "lzo2"
    /\ LastCfg.compress_threshold = 0
    /\ last.before.compress_model \notin {0, knet_h.compress_model}
    /\ last.before.compress_level # knet_h.compress_level
    /\ last.before.compress_threshold # KNET_COMPRESS_THRESHOLD
    /\ knet_h.compress_threshold = KNET_COMPRESS_THRESHOLD

\* C2: compress_init with a cfg whose name no module has returns -1 with
\* EINVAL, calls no hook and leaves the handle's selection as it was.
C2_UnknownNameIsError ==
    (InitWithCfg /\ ~Registered(LastCfg.compress_model)) =>
        /\ ConfigError
        /\ last.calls = <<>>
        /\ SameSelection(knet_h, last.before)

\* an unknown name was given to a handle that had a module selected
C2_Witness ==
    /\ InitWithCfg
    /\ LastCfg.compress_model = ""
    /\ ~Rejected
    /\ last.before.compress_model > 0
    /\ last.ret = -1

\* C3: compress_init with a cfg naming a module whose val_level hook rejects
\* the cfg's level returns -1 with EINVAL; the hook asked is that of the
\* module named, and a level only the module selected on the handle would
\* reject is accepted.
C3_LevelValidatedByNamedModule ==
    (InitWithCfg /\ RegistryIndex(LastCfg.compress_model) > 0) =>
        LET named == RegistryIndex(LastCfg.compress_model) IN
        /\ named \in last.rejecting => ConfigError
        /\ \A i \in 1..Len(last.calls) :
              last.calls[i] = HookCall("val_level", named, CmdAt(named).val_level)
        /\ (/\ named \notin last.rejecting
            /\ LastCfg.compress_threshold <= KNET_MAX_PACKET_SIZE
            /\ ~Rejected) => last.ret = 0

\* the module named rejects the level, the module selected does not
C3_Witness ==
    /\ InitWithCfg
    /\ RegistryIndex(LastCfg.compress_model) > 0
    /\ last.before.compress_model \notin {0, RegistryIndex(LastCfg.compress_model)}
    /\ last.rejecting = {RegistryIndex(LastCfg.compress_model)}
    /\ Len(last.calls) = 1
    /\ ConfigError

\* C4 (as claimed): compress_init with a cfg whose threshold is greater than
\* KNET_MAX_PACKET_SIZE returns -1 with EINVAL whatever registered name the
\* cfg carries.
C4_ThresholdTooHighIsError_AnyName ==
    (/\ InitWithCfg
     /\ Registered(LastCfg.compress_model)
     /\ LastCfg.compress_threshold > KNET_MAX_PACKET_SIZE) => ConfigError

\* C4 (amended): compress_init with a cfg whose threshold is greater than
\* KNET_MAX_PACKET_SIZE returns -1 with EINVAL, leaving the selection as it
\* was, whatever module other than "none" the cfg names; for "none" the
\* threshold is not looked at: the call returns 0 (the table being accepted)
\* and the handle's threshold stays what it was.
C4_ThresholdTooHighIsError ==
    (InitWithCfg /\ LastCfg.compress_threshold > KNET_MAX_PACKET_SIZE) =>
        /\ RegistryIndex(LastCfg.compress_model) > 0 =>
              ConfigError /\ SameSelection(knet_h, last.before)
        /\ (RegistryIndex(LastCfg.compress_model) = 0 /\ ~Rejected) =>
              /\ last.ret = 0
              /\ knet_h.compress_threshold = last.before.compress_threshold

\* a threshold too high was given with a module whose level is accepted
C4_Witness ==
    /\ InitWithCfg
    /\ LastCfg.compress_model = "lz4hc"
    /\ LastCfg.compress_threshold > KNET_MAX_PACKET_SIZE
    /\ last.rejecting = {}
    /\ ~Rejected
    /\ ConfigError

\* C5: the threshold stored on the handle is never greater than
\* KNET_MAX_PACKET_SIZE.
C5_ThresholdWithinPacketSize ==
    knet_h.compress_threshold <= KNET_MAX_PACKET_SIZE

\* the largest threshold accepted was stored, and a later call with a larger
\* one failed
C5_Witness ==
    /\ InitWithCfg
    /\ LastCfg.compress_threshold > KNET_MAX_PACKET_SIZE
    /\ last.ret = -1
    /\ knet_h.compress_threshold = KNET_MAX_PACKET_SIZE

\* the init hooks the table declares, in the order of the table
AllInits == [k \in 1..(MaxIdx + 1) |-> HookCall("init", k - 1, CmdAt(k - 1).init)]
IsSet(call) == call.fn # NULL
InitHooks == SelectSeq(AllInits, IsSet)

\* C6 (as claimed): compress_init with no cfg calls every init hook of the
\* table, each once and in the order of the table, and returns 0 (read for
\* the tables compress_init accepts).
C6_NoCfgCallsEveryInitHook_Always ==
    (InitNoCfg /\ ~Rejected) => (last.ret = 0 /\ last.calls = InitHooks)

\* C6 (amended): compress_init with no cfg, on a table it accepts, calls the
\* init hooks in the order of the table, each at most once; if none of them
\* fails it calls every one and returns 0; if one fails it returns -1 with
\* EINVAL having called the hooks up to that one and none after it. The
\* selection on the handle stays as it was.
C6_NoCfgCallsEveryInitHook ==
    (InitNoCfg /\ ~Rejected) =>
        /\ SameSelection(knet_h, last.before)
        /\ IF last.fail_at = NoFail
           THEN last.ret = 0 /\ last.calls = InitHooks
           ELSE /\ ConfigError
                /\ \E n \in 1..Len(InitHooks) :
                      /\ last.calls = SubSeq(InitHooks, 1, n)
                      /\ InitHooks[n].idx = last.fail_at

\* several init hooks were called, in order, and the call returned 0
C6_Witness ==
    /\ InitNoCfg
    /\ last.ret = 0
    /\ Len(last.calls) >= 2
    /\ last.calls[1].fn = "lzo2_init"
    /\ last.calls[2].idx > last.calls[1].idx

\* C7: every call through the table is a call of a hook that is set, of a
\* module other than entry 0, and a decompress whose index is no module of
\* the table returns an error without calling anything.
C7_OnlyHooksOfModulesAreCalled ==
    /\ ~crashed
    /\ \A i \in 1..Len(last.calls) :
          /\ last.calls[i].idx \in 1..MaxIdx
          /\ last.calls[i].fn \notin {NULL, WILD}
    /\ (last.op = "decompress" /\ last.idx \notin 1..MaxIdx) =>
          (last.ret = -1 /\ last.calls = <<>>)

\* C8: compress calls the compress entry of the module selected on the
\* handle, decompress the decompress entry of the module at the index it is
\* given, and neither changes the handle.
C8_DispatchByHandleAndByIndex ==
    /\ last.op = "compress" =>
          /\ last.calls = <<HookCall("compress", last.before.compress_model,
                                     CmdAt(last.before.compress_model).compress)>>
          /\ knet_h = last.before
    /\ last.op = "decompress" =>
          /\ last.idx \in ModuleIdxs =>
                last.calls = <<HookCall("decompress", last.idx,
                                        CmdAt(last.idx).decompress)>>
          /\ knet_h = last.before

\* decompress was given the index of another module than the one selected
C8_Witness ==
    /\ last.op = "decompress"
    /\ ~crashed
    /\ knet_h.compress_model = 1
    /\ last.idx = 3
    /\ last.calls[1].fn = "lz4_decompress"

\* the names at the indices 0..6, as they are on the wire
WireNames == <<"none", "zlib", "lz4", "lz4hc", "lzo2", "lzma", "bzip2">>

\* C9: get_model returns 0..6 for none, zlib, lz4, lz4hc, lzo2, lzma, bzip2,
\* the index of its entry for every other name of the table, and -1 for a
\* name that is not in the table; get_model(get_model_by_idx(i)) = i; no two
\* entries have the same name.
C9_NamesAndIndicesOneToOne ==
    /\ last.op = "get_model" =>
          /\ \A i \in 1..Len(WireNames) :
                last.model = WireNames[i] => last.ret = i - 1
          /\ Registered(last.model) => CmdAt(last.ret).model_name = last.model
          /\ ~Registered(last.model) => last.ret = -1
    /\ last.op = "get_model_by_idx" => get_model(last.model) = last.idx
    /\ \A i, j \in ModuleIdxs :
          CmdAt(i).model_name = CmdAt(j).model_name => i = j

\* the name found at index 6 was looked up
C9_Witness ==
    /\ last.op = "get_model_by_idx"
    /\ last.idx = 6
    /\ last.model = "bzip2"
    /\ get_model(last.model) = 6

\* C10: compress_init returns -1 with EINVAL, having called no hook and
\* stored no selection, whenever the table holds more modules than
\* KNET_MAX_COMPRESS_METHODS.
C10_TooManyModulesIsError ==
    (last.op = "compress_init" /\ MaxIdx + 1 > KNET_MAX_COMPRESS_METHODS) =>
        /\ ConfigError
        /\ last.calls = <<>>
        /\ SameSelection(knet_h, last.before)

FiniCall == last.op = "compress_fini"

AllFinis == [k \in 1..(MaxIdx + 1) |-> HookCall("fini", k - 1, CmdAt(k - 1).fini)]
FiniHooks == SelectSeq(AllFinis, IsSet)

\* C11: on every table that compress_init accepts, compress_fini calls the
\* fini hook of every module that has one, each exactly once per call.
C11_FiniCallsEveryFiniHook ==
    (FiniCall /\ ~TooManyMethods(get_max_model)) => last.calls = FiniHooks

\* compress_init had never been called on the handle given to compress_fini
NeverInitialised == last.before.compress_max_model = 0

\* C12: compress_fini on a handle that compress_init never saw returns, does
\* not end the process, and leaves the handle and errno as they were; a
\* compress_fini that follows a compress_fini calls the same hooks and
\* leaves the state the first one left.
C12_FiniNeedsNoInit ==
    [][(last'.op = "compress_fini" /\ knet_h.compress_max_model = 0) =>
          /\ ~crashed'
          /\ knet_h' = knet_h
          /\ errno' = errno
          /\ last'.ret = 0
          /\ (FiniCall =>
                 /\ last'.calls = last.calls
                 /\ last'.before = last.before)]_vars

\* compress_fini returned on a handle of the source's table that
\* compress_init never saw, having called the one fini hook of that table
C12_Witness ==
    /\ FiniCall
    /\ NeverInitialised
    /\ ~crashed
    /\ MaxIdx = Len(BaseCmds) - 1
    /\ last.calls = <<HookCall("fini", 4, "lzo2_fini")>>
    /\ SameSelection(knet_h, last.before)

----------------------------------------------------------------------------
(* knet_handle_stop on a handle in any state *)

\* the states of a link slot: unconfigured, disabled, probing, connected
LinkState(e, c) ==
    [configured |-> TRUE, enabled |-> e, connected |-> c, src_addr |-> 1,
     dst_addr |-> 1, dynamic |-> FALSE]

LinkStates ==
    {NoLink, LinkState(FALSE, FALSE), LinkState(TRUE, FALSE), LinkState(TRUE, TRUE)}

\* a host whose links are in the states links gives, the dst-link worker
\* having seen them
HostWith(links) ==
    [link |-> links,
     status |-> [reachable |-> \E l \in LinkIds : links[l].connected]]

HostStates == {NoHost} \cup {HostPtr(HostWith(links)) : links \in [LinkIds -> LinkStates]}

\* the hosts of the handles knet_handle_stop is given
StopHosts == 1..(KNET_MAX_HOST - 1)

\* knet_handle_stop is given a handle with forwarding on and each of the
\* hosts absent or there with its links in any states
StopInit ==
    /\ CompressIdle
    /\ errno = 0
    /\ \E hosts \in [StopHosts -> HostStates] :
          lib = [NewHandle EXCEPT
                    !.host_index = [i \in HostIds |->
                                       IF i \in StopHosts THEN hosts[i] ELSE NoHost],
                    !.enabled = TRUE]
    /\ libcall = NoLibCall
    /\ notes = NoNotes
    /\ DynIdle

Stopped(r) ==
    /\ errno' = r.errno
    /\ libcall' = LibCallRecord("knet_handle_stop", 0, 0, 0, r.ret, r.errno, <<>>, r.trace)
    /\ UNCHANGED <<cvars, notes, dvars>>

KnetHandleStop ==
    /\ libcall.op = "none"
    /\ LET r == knet_handle_stop(HandlePtr(lib)) IN
          /\ lib' = r.h
          /\ Stopped(r)

KnetHandleStopNull ==
    /\ libcall.op = "none"
    /\ lib' = lib
    /\ Stopped(knet_handle_stop(NullHandle))

StopNext ==
    \/ KnetHandleStop
    \/ KnetHandleStopNull

StopSpec == StopInit /\ [][StopNext]_vars

StopRan == libcall.op = "knet_handle_stop" /\ libcall.trace # <<>>

TraceIdx == 1..Len(libcall.trace)

\* C13: whatever hosts and links the handle has, knet_handle_stop returns 0
\* with forwarding off, no link enabled or configured, no host left and the
\* handle freed.
C13_StopTearsDownEverything ==
    StopRan =>
        /\ libcall.ret = 0
        /\ ~lib.enabled
        /\ \A i \in HostIds : ~HostExists(lib, i)
        /\ lib.freed

\* C14: in a run of knet_handle_stop forwarding is off at every call that
\* touches a link or a host, no knet_link_clear_config names a link that is
\* enabled, no knet_host_remove names a host that has a configured link, and
\* knet_handle_free is called with no host left.
C14_StopStepsAreOrdered ==
    StopRan =>
        \A k \in TraceIdx :
            LET c == libcall.trace[k] IN
            /\ (c.fn # "knet_handle_setfwd") => ~c.fwd
            /\ (c.fn = "knet_link_clear_config") => ~c.enabled
            /\ (c.fn = "knet_host_remove") => ~c.configured
            /\ (c.fn = "knet_handle_free") => c.hosts = {}

----------------------------------------------------------------------------
(* A handle under its callers and its workers *)

\* host ids the callers use are 1 .. MaxHost
MaxHost == 1

CallerHosts == 1..MaxHost
CallerLinks == 0..(MaxLink - 1)
Addrs == 1..MaxAddr

LinkInit ==
    /\ CompressIdle
    /\ errno = 0
    /\ LibIdle
    /\ DynIdle

\* a caller's library call returned r
LibReturned(op, host_id, link_id, arg, r) ==
    /\ lib' = r.h
    /\ errno' = r.errno
    /\ libcall' = LibCallRecord(op, host_id, link_id, arg, r.ret, r.errno, <<>>, <<>>)
    /\ UNCHANGED <<cvars, dvars>>

\* a worker made a step
Worked(op, host_id, link_id, h, notified) ==
    /\ lib' = h
    /\ libcall' = LibCallRecord(op, host_id, link_id, 0, 0, 0, notified, <<>>)
    /\ UNCHANGED <<cvars, errno, dvars>>

KnetHostAdd ==
    /\ ~lib.freed
    /\ \E host_id \in CallerHosts :
          LET r == knet_host_add(lib, host_id) IN
          /\ LibReturned("knet_host_add", host_id, 0, 0, r)
          /\ notes' = IF r.ret = 0 THEN [notes EXCEPT ![host_id] = <<>>] ELSE notes

KnetHostRemove ==
    /\ ~lib.freed
    /\ \E host_id \in CallerHosts :
          LibReturned("knet_host_remove", host_id, 0, 0, knet_host_remove(lib, host_id))
    /\ UNCHANGED notes

KnetLinkSetConfig ==
    /\ ~lib.freed
    /\ \E host_id \in CallerHosts, link_id \in CallerLinks, src_addr \in Addrs :
          LibReturned("knet_link_set_config", host_id, link_id, src_addr,
                      knet_link_set_config(lib, host_id, link_id, src_addr, 1))
    /\ UNCHANGED notes

KnetLinkClearConfig ==
    /\ ~lib.freed
    /\ \E host_id \in CallerHosts, link_id \in CallerLinks :
          LibReturned("knet_link_clear_config", host_id, link_id, 0,
                      knet_link_clear_config(lib, host_id, link_id))
    /\ UNCHANGED notes

KnetLinkSetEnable ==
    /\ ~lib.freed
    /\ \E host_id \in CallerHosts, link_id \in CallerLinks, enabled \in BOOLEAN :
          LibReturned("knet_link_set_enable", host_id, link_id,
                      IF enabled THEN 1 ELSE 0,
                      knet_link_set_enable(lib, host_id, link_id, enabled))
    /\ UNCHANGED notes

\* the links the heartbeat worker walks
Probing(h, host_id, link_id) ==
    /\ HostExists(h, host_id)
    /\ LinkAt(h, host_id, link_id).enabled
    /\ ~LinkAt(h, host_id, link_id).connected

Connected(h, host_id, link_id) ==
    /\ HostExists(h, host_id)
    /\ LinkAt(h, host_id, link_id).enabled
    /\ LinkAt(h, host_id, link_id).connected

PongReceived ==
    /\ ~lib.freed
    /\ \E host_id \in CallerHosts, link_id \in CallerLinks :
          /\ Probing(lib, host_id, link_id)
          /\ Worked("pong_received", host_id, link_id,
                    pong_received(lib, host_id, link_id), <<>>)
    /\ UNCHANGED notes

PongTimeout ==
    /\ ~lib.freed
    /\ \E host_id \in CallerHosts, link_id \in CallerLinks :
          /\ Connected(lib, host_id, link_id)
          /\ Worked("pong_timeout", host_id, link_id,
                    pong_timeout(lib, host_id, link_id), <<>>)
    /\ UNCHANGED notes

\* the callbacks made are kept per host, the last one only
Noted(n, notified) ==
    IF notified = <<>> THEN n
    ELSE [n EXCEPT ![notified[1].host_id] = <<notified[1].reachable>>]

DstLink ==
    /\ ~lib.freed
    /\ \E host_id \in lib.dst_pending :
          LET r == dst_link_update(lib, host_id) IN
          /\ Worked("dst_link", host_id, 0, r.h, r.notified)
          /\ notes' = Noted(notes, r.notified)

LinkStop ==
    /\ ~lib.freed
    /\ LET r == knet_handle_stop(HandlePtr(lib)) IN
          /\ lib' = r.h
          /\ Stopped(r)

LinkNext ==
    \/ KnetHostAdd
    \/ KnetHostRemove
    \/ KnetLinkSetConfig
    \/ KnetLinkClearConfig
    \/ KnetLinkSetEnable
    \/ PongReceived
    \/ PongTimeout
    \/ DstLink
    \/ LinkStop

LinkSpec == LinkInit /\ [][LinkNext]_vars

Reachable(h, host_id) == HostExists(h, host_id) /\ HostAt(h, host_id).status.reachable

\* the hosts with at least one connected link
ConnectedHosts(h) == {i \in HostIds : HostExists(h, i) /\ HasConnectedLink(h, i)}

\* C15 (as claimed): in every state a host's reachable flag is set if and
\* only if one of its links is connected.
C15_ReachableIffConnected_Always ==
    \A i \in HostIds : HostExists(lib, i) =>
        (HostAt(lib, i).status.reachable <=> HasConnectedLink(lib, i))

\* C15 (amended): in every state in which the dst-link worker has no wake-up
\* left to serve, a host's reachable flag is set if and only if one of its
\* links is connected, and count_nodes counts the hosts with a connected
\* link; a host the worker was woken for keeps the flag it had.
C15_ReachableIffConnected ==
    /\ \A i \in HostIds : (HostExists(lib, i) /\ i \notin lib.dst_pending) =>
          (HostAt(lib, i).status.reachable <=> HasConnectedLink(lib, i))
    /\ (lib.dst_pending = {}) =>
          count_nodes(lib) = Cardinality(ConnectedHosts(lib))

\* the dst-link worker set the flag of a host of which one link is connected
\* and another is probing
C15_Witness ==
    /\ libcall.op = "dst_link"
    /\ lib.dst_pending = {}
    /\ count_nodes(lib) = 1
    /\ Reachable(lib, 1)
    /\ LinkAt(lib, 1, 0).connected
    /\ LinkAt(lib, 1, 1).enabled /\ ~LinkAt(lib, 1, 1).connected

\* C16: a step that changes a host's reachable flag calls the status-change
\* callback once, for that host and with the new value; a step that leaves
\* the flag alone calls it for that host not at all; so the calls for a host
\* alternate, and the first since the host was added reports reachable.
C16_OneNotificationPerTransition ==
    [][\A i \in CallerHosts :
          IF HostExists(lib, i) /\ HostExists(lib', i)
             /\ HostAt(lib', i).status.reachable # HostAt(lib, i).status.reachable
          THEN /\ libcall'.notified = <<Notification(i, HostAt(lib', i).status.reachable)>>
               /\ notes'[i] = <<HostAt(lib', i).status.reachable>>
               /\ notes[i] # notes'[i]
               /\ (notes[i] = <<>>) => HostAt(lib', i).status.reachable
          ELSE /\ \A k \in 1..Len(libcall'.notified) : libcall'.notified[k].host_id # i
               /\ \/ notes'[i] = notes[i]
                  \/ notes'[i] = <<>> /\ ~HostExists(lib, i)
      ]_vars

\* the dst-link worker was woken by a link that dropped while the other link
\* of the host stayed connected, and called nothing; the host had been
\* reported reachable
C16_Witness ==
    /\ libcall.op = "dst_link"
    /\ libcall.notified = <<>>
    /\ notes[1] = <<TRUE>>
    /\ Reachable(lib, 1)
    /\ LinkAt(lib, 1, 0).enabled /\ ~LinkAt(lib, 1, 0).connected
    /\ LinkAt(lib, 1, 1).connected

\* the link the last library call named
CalledLink(h) == LinkAt(h, libcall.host_id, libcall.link_id)

\* C17: knet_link_clear_config on an enabled link returns -1 with EBUSY and
\* changes nothing; on a disabled configured link it returns 0 and the slot
\* is unconfigured; knet_link_set_config on an unconfigured slot of a host
\* returns 0 with the slot configured from the address given, whatever
\* address it had before; knet_link_set_enable(1) on a configured link
\* returns 0 with the link enabled.
C17_ClearRequiresDisabled ==
    [][\A i \in CallerHosts, l \in CallerLinks :
          (HostExists(lib, i) /\ libcall'.host_id = i /\ libcall'.link_id = l) =>
              /\ (libcall'.op = "knet_link_clear_config" /\ LinkAt(lib, i, l).enabled) =>
                    /\ libcall'.ret = -1 /\ libcall'.errno = EBUSY
                    /\ lib' = lib
                    /\ LinkAt(lib', i, l).configured /\ LinkAt(lib', i, l).enabled
              /\ (libcall'.op = "knet_link_clear_config" /\ LinkAt(lib, i, l).configured
                    /\ ~LinkAt(lib, i, l).enabled) =>
                    /\ libcall'.ret = 0
                    /\ LinkAt(lib', i, l) = NoLink
              /\ (libcall'.op = "knet_link_set_config" /\ ~LinkAt(lib, i, l).configured) =>
                    /\ libcall'.ret = 0
                    /\ LinkAt(lib', i, l).configured
                    /\ LinkAt(lib', i, l).src_addr = libcall'.arg
              /\ (libcall'.op = "knet_link_set_enable" /\ libcall'.arg = 1
                    /\ LinkAt(lib, i, l).configured) =>
                    /\ libcall'.ret = 0
                    /\ LinkAt(lib', i, l).enabled
      ]_vars

\* knet_link_clear_config was refused on a connected link
C17_Witness ==
    /\ libcall.op = "knet_link_clear_config"
    /\ libcall.ret = -1 /\ libcall.errno = EBUSY
    /\ HostExists(lib, libcall.host_id)
    /\ CalledLink(lib).configured /\ CalledLink(lib).enabled /\ CalledLink(lib).connected

\* C18: in every state a connected link is enabled and an enabled link is
\* configured, links being slots of the hosts that exist; right after a
\* knet_link_set_enable(0) that returned 0 the link is neither enabled nor
\* connected, and right after a knet_link_set_config that returned 0 the
\* link is configured and not enabled.
C18_ConnectedEnabledConfigured ==
    /\ \A i \in HostIds : HostExists(lib, i) =>
          \A l \in LinkIds :
              /\ LinkAt(lib, i, l).connected => LinkAt(lib, i, l).enabled
              /\ LinkAt(lib, i, l).enabled => LinkAt(lib, i, l).configured
    /\ (libcall.op = "knet_link_set_enable" /\ libcall.arg = 0 /\ libcall.ret = 0) =>
          /\ HostExists(lib, libcall.host_id)
          /\ ~CalledLink(lib).enabled /\ ~CalledLink(lib).connected
    /\ (libcall.op = "knet_link_set_config" /\ libcall.ret = 0) =>
          /\ HostExists(lib, libcall.host_id)
          /\ CalledLink(lib).configured /\ ~CalledLink(lib).enabled
          /\ ~CalledLink(lib).connected

\* a link was disabled while the dst-link worker still has the host flagged
\* reachable: the link had been connected
C18_Witness ==
    /\ libcall.op = "knet_link_set_enable" /\ libcall.arg = 0 /\ libcall.ret = 0
    /\ Reachable(lib, libcall.host_id)
    /\ ~HasConnectedLink(lib, libcall.host_id)
    /\ CalledLink(lib).configured

(***************************************************************************)
(* tests/fun_dynamic_check.c: two handles on one machine, node 1 with a    *)
(* dynamic link to node 2, node 2 with a link to node 1's address that it  *)
(* takes down and configures again from another local address              *)
(***************************************************************************)

CORRECT_NUM_MSGS == 10
TESTNODES == 2

\* the blocks of test() that configure node 2's link again
NumReconf == 3

Nodes == 1..TESTNODES

\* the calls test() gets to make while a dst-link worker that was woken has
\* not run yet
MaxLag == 1

\* the filter both handles install: the packet goes to the other node
dhost_filter(this_host_id) == <<3 - this_host_id>>

QUIT == "QUIT"

\* the calls test() makes, in order: the line, the function, the node whose
\* handle is passed, and the argument that varies
Step(line, op, node, arg, dst) ==
    [line |-> line, op |-> op, node |-> node, arg |-> arg, dst |-> dst]

Setup ==
    << Step(255, "knet_host_add", 2, 1, 0),
       Step(256, "knet_host_add", 1, 2, 0),
       Step(262, "knet_link_set_config", 1, 1, NoAddr),
       Step(265, "knet_link_set_config", 2, 1, 1),
       Step(276, "knet_link_set_enable", 1, 1, 0),
       Step(277, "knet_link_set_enable", 2, 1, 0),
       Step(279, "knet_handle_setfwd", 1, 1, 0),
       Step(280, "knet_handle_setfwd", 2, 1, 0),
       Step(283, "pthread_create", 1, 0, 0),
       Step(284, "pthread_create", 2, 0, 0),
       Step(287, "wait_for_nodes_state", 1, 1, 0),
       Step(288, "wait_for_nodes_state", 2, 1, 0),
       Step(293, "knet_send_str", 2, 0, 0),
       Step(294, "wait_for_reply", 0, 0, 0),
       Step(297, "knet_send_str", 1, 0, 0) >>

\* the local address of node 2 in block k: 127.0.0.2, 127.0.0.3, 127.0.0.1
ReconfAddr(k) == (k % 3) + 1

\* the first line of block k
ReconfLine(k) == 301 + 16 * (k - 1)

Reconf(k) ==
    << Step(ReconfLine(k), "knet_link_set_enable", 2, 0, 0),
       Step(ReconfLine(k) + 1, "knet_link_clear_config", 2, 0, 0),
       Step(ReconfLine(k) + 3, "knet_link_set_config", 2, ReconfAddr(k), 1),
       Step(ReconfLine(k) + 4, "knet_link_set_enable", 2, 1, 0),
       Step(ReconfLine(k) + 5, "wait_for_nodes_state", 1, 1, 0),
       Step(ReconfLine(k) + 6, "wait_for_nodes_state", 2, 1, 0),
       Step(ReconfLine(k) + 8, "knet_send_str", 2, 0, 0),
       Step(ReconfLine(k) + 9, "wait_for_reply", 0, 0, 0),
       Step(ReconfLine(k) + 12, "knet_send_str", 1, 0, 0),
       Step(ReconfLine(k) + 13, "wait_for_reply", 0, 0, 0) >>

RECURSIVE Reconfs(_)
Reconfs(k) == IF k > NumReconf THEN <<>> ELSE Reconf(k) \o Reconfs(k + 1)

Finish ==
    << Step(349, "knet_send_str", 2, 1, 0),
       Step(350, "knet_send_str", 1, 1, 0),
       Step(353, "pthread_join", 1, 0, 0),
       Step(358, "pthread_join", 2, 0, 0),
       Step(365, "knet_handle_stop_nodes", 0, 0, 0),
       Step(375, "msgs_recvd", 0, 0, 0) >>

Script == Setup \o Reconfs(1) \o Finish

\* the steps up to the reply to the first message sent after block 1
FirstReconf == Len(Setup) + 8

\* a receive thread: not created, in knet_recv, between reading msgs_recvd
\* and writing it back, or returned
RecvThread(at, reg, payload) == [at |-> at, reg |-> reg, payload |-> payload]

\* test() about to make its first call, to run the first len steps
NewTest(len) ==
    [pc |-> 1, len |-> len, exit |-> "running", lag |-> 0,
     msgs_recvd |-> 0,
     reply_pipe |-> 0,
     thread |-> [n \in Nodes |-> RecvThread("none", 0, "")],
     flips |-> [n \in Nodes |-> <<>>]]

DynInit ==
    /\ CompressIdle
    /\ errno = 0
    /\ LibIdle
    /\ nodes = [n \in Nodes |-> NewHandle]
    /\ net = {}
    /\ test = NewTest(Len(Script))

\* a dst-link worker was woken and has not run yet
Lagging == \E n \in Nodes : nodes[n].dst_pending # {}

\* the call test() is about to make
AtStep(op) ==
    /\ test.exit = "running"
    /\ test.pc <= test.len
    /\ Script[test.pc].op = op
    /\ Lagging => test.lag < MaxLag

Now == Script[test.pc]

\* FAIL_ON_ERR: a call that returns non-zero ends the test
Advance(t, ret) ==
    IF ret = 0
    THEN [t EXCEPT !.pc = @ + 1, !.lag = IF Lagging THEN @ + 1 ELSE 0]
    ELSE [t EXCEPT !.exit = "FAIL"]

\* test() made a library call on the handle of node n
Called(n, r) ==
    /\ nodes' = [nodes EXCEPT ![n] = r.h]
    /\ errno' = r.errno
    /\ test' = Advance(test, r.ret)
    /\ UNCHANGED <<cvars, hvars, net>>

TestHostAdd ==
    /\ AtStep("knet_host_add")
    /\ Called(Now.node, knet_host_add(nodes[Now.node], Now.arg))

TestLinkSetConfig ==
    /\ AtStep("knet_link_set_config")
    /\ Called(Now.node, knet_link_set_config(nodes[Now.node], 3 - Now.node, 0,
                                             Now.arg, Now.dst))

\* block k starts: the callbacks seen are those since it started
TestLinkSetEnable ==
    /\ AtStep("knet_link_set_enable")
    /\ LET r == knet_link_set_enable(nodes[Now.node], 3 - Now.node, 0, Now.arg = 1) IN
          /\ nodes' = [nodes EXCEPT ![Now.node] = r.h]
          /\ errno' = r.errno
          /\ test' = IF Now.arg = 0
                     THEN [Advance(test, r.ret) EXCEPT !.flips = [n \in Nodes |-> <<>>]]
                     ELSE Advance(test, r.ret)
          /\ UNCHANGED <<cvars, hvars, net>>

TestLinkClearConfig ==
    /\ AtStep("knet_link_clear_config")
    /\ Called(Now.node, knet_link_clear_config(nodes[Now.node], 3 - Now.node, 0))

TestSetfwd ==
    /\ AtStep("knet_handle_setfwd")
    /\ Called(Now.node, knet_handle_setfwd(nodes[Now.node], Now.arg = 1))

TestThreadCreate ==
    /\ AtStep("pthread_create")
    /\ test' = [Advance(test, 0) EXCEPT !.thread[Now.node] = RecvThread("recv", 0, "")]
    /\ UNCHANGED <<cvars, errno, hvars, nodes, net>>

\* wait_for_nodes_state(knet_h[n], TESTNODES, 1, ...) returns 0 once
\* count_nodes is TESTNODES - 1
TestWaitNodes ==
    /\ AtStep("wait_for_nodes_state")
    /\ count_nodes(nodes[Now.node]) = TESTNODES - 1
    /\ test' = Advance(test, 0)
    /\ UNCHANGED <<cvars, errno, hvars, nodes, net>>

\* the string test() passes to knet_send_str at a line
TestString(line) ==
    CASE line = 293 -> "Testing from 127.0.0.1"
      [] line = 297 -> "Testing from 'receiving' handle to 127.0.0.1"
      [] line = 309 -> "Testing from 127.0.0.2"
      [] line = 313 -> "Testing from 'receiving' handle to 127.0.0.2"
      [] line = 325 -> "Testing from 127.0.0.3"
      [] line = 329 -> "Testing from 'receiving' handle to 127.0.0.3"
      [] line = 341 -> "Testing from 127.0.0.1 again"
      [] line = 345 -> "Testing from 'receiving' handle to 127.0.0.1 again"
      [] OTHER -> QUIT

Payload(step) == IF step.arg = 1 THEN QUIT ELSE TestString(step.line)

TestSend ==
    /\ AtStep("knet_send_str")
    /\ LET r == knet_send(nodes[Now.node], Now.node, dhost_filter(Now.node),
                          Payload(Now)) IN
          /\ nodes' = [nodes EXCEPT ![Now.node] = r.h]
          /\ net' = net \cup r.sent
    /\ test' = Advance(test, 0)
    /\ UNCHANGED <<cvars, errno, hvars>>

\* wait_for_reply returns 0 once the pipe holds a byte, and reads all there
\* are (up to 32)
TestWaitReply ==
    /\ AtStep("wait_for_reply")
    /\ test.reply_pipe > 0
    /\ test' = [Advance(test, 0) EXCEPT !.reply_pipe = 0]
    /\ UNCHANGED <<cvars, errno, hvars, nodes, net>>

TestJoin ==
    /\ AtStep("pthread_join")
    /\ test.thread[Now.node].at = "done"
    /\ test' = Advance(test, 0)
    /\ UNCHANGED <<cvars, errno, hvars, nodes, net>>

\* knet_handle_stop_nodes: knet_handle_stop on every handle
TestStopNodes ==
    /\ AtStep("knet_handle_stop_nodes")
    /\ nodes' = [n \in Nodes |-> knet_handle_stop(HandlePtr(nodes[n])).h]
    /\ test' = Advance(test, 0)
    /\ UNCHANGED <<cvars, errno, hvars, net>>

\* the check of msgs_recvd that ends test()
TestCheck ==
    /\ AtStep("msgs_recvd")
    /\ test' = [Advance(test, 0) EXCEPT
                            !.exit = IF test.msgs_recvd # CORRECT_NUM_MSGS
                                        /\ test.msgs_recvd # CORRECT_NUM_MSGS - 1
                                     THEN "FAIL" ELSE "PASS"]
    /\ UNCHANGED <<cvars, errno, hvars, nodes, net>>

\* the datagrams in flight that carry a packet another one in flight carries
\* or the RX worker has delivered
Redundant ==
    Cardinality(net)
    - Cardinality({q.fp : q \in {p \in net : ~InWindow(nodes[p.dst], p.fp)}})

\* the network duplicating a datagram
NetDuplicate ==
    /\ Redundant < MaxDup
    /\ \E p \in net :
          /\ p.copy = 1
          /\ net' = net \cup {[p EXCEPT !.copy = 2]}
    /\ UNCHANGED <<cvars, errno, hvars, nodes, test>>

\* a datagram reaches node n: the RX worker drops, suppresses or delivers
\* it, and the receive thread of n, in knet_recv, takes what is delivered
\* and reads msgs_recvd
Recv ==
    /\ \E p \in net :
          LET n == p.dst
              r == rx_packet(nodes[n], p)
          IN  /\ test.thread[n].at \in {"recv", "done"}
              /\ net' = net \ {p}
              /\ nodes' = [nodes EXCEPT ![n] = r.h]
              /\ test' = IF r.delivered # <<>> /\ test.thread[n].at = "recv"
                         THEN [test EXCEPT !.thread[n] =
                                  RecvThread("incr", test.msgs_recvd, r.delivered[1])]
                         ELSE test
    /\ UNCHANGED <<cvars, errno, hvars>>

\* the receive thread writes msgs_recvd back, one more than it read, and
\* returns at QUIT or else writes a byte to the pipe
RecvCount ==
    /\ \E n \in Nodes :
          /\ test.thread[n].at = "incr"
          /\ test' = IF test.thread[n].payload = QUIT
                     THEN [test EXCEPT !.msgs_recvd = test.thread[n].reg + 1,
                                       !.thread[n] = RecvThread("done", 0, "")]
                     ELSE [test EXCEPT !.msgs_recvd = test.thread[n].reg + 1,
                                       !.reply_pipe = @ + 1,
                                       !.thread[n] = RecvThread("recv", 0, "")]
    /\ UNCHANGED <<cvars, errno, hvars, nodes, net>>

\* the link of node n to its peer
PeerLink(n) == LinkAt(nodes[n], 3 - n, 0)

\* probes getting through only between links that name each other's address
CanReach_StaticOnly(n) ==
    /\ ~nodes[n].freed /\ ~nodes[3 - n].freed
    /\ HostExists(nodes[n], 3 - n) /\ HostExists(nodes[3 - n], n)
    /\ PeerLink(n).enabled /\ PeerLink(3 - n).enabled
    /\ PeerLink(n).dst_addr = PeerLink(3 - n).src_addr
    /\ PeerLink(3 - n).dst_addr = PeerLink(n).src_addr

\* the probes of node n's link get through: both ends are enabled, and each
\* is dynamic (it learns the remote address from what it receives) or has
\* the other's local address as its remote address
CanReach(n) ==
    /\ ~nodes[n].freed /\ ~nodes[3 - n].freed
    /\ HostExists(nodes[n], 3 - n) /\ HostExists(nodes[3 - n], n)
    /\ PeerLink(n).enabled /\ PeerLink(3 - n).enabled
    /\ PeerLink(n).dynamic \/ PeerLink(n).dst_addr = PeerLink(3 - n).src_addr
    /\ PeerLink(3 - n).dynamic \/ PeerLink(3 - n).dst_addr = PeerLink(n).src_addr

\* a worker of node n made a step
DynWorked(n, h) ==
    /\ nodes' = [nodes EXCEPT ![n] = h]
    /\ UNCHANGED <<cvars, errno, hvars, net>>

DynPongReceived ==
    /\ \E n \in Nodes :
          /\ Probing(nodes[n], 3 - n, 0)
          /\ CanReach(n)
          /\ DynWorked(n, pong_received(nodes[n], 3 - n, 0))
    /\ UNCHANGED test

DynPongTimeout ==
    /\ \E n \in Nodes :
          /\ Connected(nodes[n], 3 - n, 0)
          /\ ~CanReach(n)
          /\ DynWorked(n, pong_timeout(nodes[n], 3 - n, 0))
    /\ UNCHANGED test

\* the callbacks a node made since node 2's link was last taken down
Flipped(flips, notified) ==
    IF notified = <<>> THEN flips ELSE Append(flips, notified[1].reachable)

DynDstLink ==
    \E n \in Nodes :
       /\ ~nodes[n].freed
       /\ \E host_id \in nodes[n].dst_pending :
             LET r == dst_link_update(nodes[n], host_id) IN
             /\ DynWorked(n, r.h)
             /\ test' = [test EXCEPT !.flips[n] = Flipped(@, r.notified),
                                      !.lag = 0]

DynNext ==
    \/ TestHostAdd
    \/ TestLinkSetConfig
    \/ TestLinkSetEnable
    \/ TestLinkClearConfig
    \/ TestSetfwd
    \/ TestThreadCreate
    \/ TestWaitNodes
    \/ TestSend
    \/ TestWaitReply
    \/ TestJoin
    \/ TestStopNodes
    \/ TestCheck
    \/ NetDuplicate
    \/ Recv
    \/ RecvCount
    \/ DynPongReceived
    \/ DynPongTimeout
    \/ DynDstLink

DynSpec == DynInit /\ [][DynNext]_vars

\* the messages test() has passed to knet_send_str so far
Sent == Cardinality({k \in 1..(test.pc - 1) : k <= Len(Script) /\ Script[k].op = "knet_send_str"})

\* the packets the RX worker of node n delivered, oldest first: the ring has
\* room for all a node is sent in this test
Delivered(n) == nodes[n].window

\* C20: a node's RX worker delivers no fingerprint twice, whatever copies of
\* the packet arrive and whatever node 2 does to its link in between, and
\* delivers only what the other node sent; so msgs_recvd, which counts what
\* the two receive threads took, never exceeds the number of messages sent
\* so far, which never exceeds CORRECT_NUM_MSGS.
C20_AtMostOncePerFingerprint ==
    /\ \A n \in Nodes :
          /\ \A j, k \in 1..Len(Delivered(n)) :
                 Delivered(n)[j] = Delivered(n)[k] => j = k
          /\ \A k \in 1..Len(Delivered(n)) :
                 /\ Delivered(n)[k].sender = 3 - n
                 /\ Delivered(n)[k].seq \in 1..nodes[3 - n].tx_seq
    /\ test.msgs_recvd <= Len(Delivered(1)) + Len(Delivered(2))
    /\ Len(Delivered(1)) + Len(Delivered(2)) <= Sent
    /\ Sent <= CORRECT_NUM_MSGS

\* test() passed with all ten messages counted, node 2's link having been
\* configured three times over, while the network still holds a copy of a
\* packet that was delivered
C20_Witness ==
    /\ test.exit = "PASS"
    /\ test.msgs_recvd = CORRECT_NUM_MSGS
    /\ Sent = CORRECT_NUM_MSGS
    /\ \E p \in net : p.copy > 1 /\ InWindow(nodes[p.dst], p.fp)

(***************************************************************************)
(* test() up to the reply to the first message after node 2 configured its *)
(* link again, with every thread and worker getting to run                 *)
(***************************************************************************)

ReconfInit ==
    /\ CompressIdle
    /\ errno = 0
    /\ LibIdle
    /\ nodes = [n \in Nodes |-> NewHandle]
    /\ net = {}
    /\ test = NewTest(FirstReconf)

\* the calls of the main thread
TestStep ==
    \/ TestHostAdd
    \/ TestLinkSetConfig
    \/ TestLinkSetEnable
    \/ TestLinkClearConfig
    \/ TestSetfwd
    \/ TestThreadCreate
    \/ TestWaitNodes
    \/ TestSend
    \/ TestWaitReply

ReconfNext ==
    \/ TestStep
    \/ NetDuplicate
    \/ Recv
    \/ RecvCount
    \/ DynPongReceived
    \/ DynPongTimeout
    \/ DynDstLink

\* the main thread, the receive threads and the workers of the handles
\* are threads of their own that the scheduler runs when they can run; a
\* probe that can get through does, and pongs that stay out are noticed
ReconfSpec ==
    /\ ReconfInit
    /\ [][ReconfNext]_vars
    /\ WF_vars(TestStep)
    /\ WF_vars(Recv)
    /\ WF_vars(RecvCount)
    /\ WF_vars(DynPongReceived)
    /\ WF_vars(DynPongTimeout)
    /\ WF_vars(DynDstLink)

\* what knet_link_set_config and knet_link_set_enable set of a link
LinkConfig(l) ==
    [configured |-> l.configured, enabled |-> l.enabled, src_addr |-> l.src_addr,
     dst_addr |-> l.dst_addr, dynamic |-> l.dynamic]

\* node 2 took its link down, configured it from the address of block 1 and
\* enabled it
Reconfigured ==
    /\ test.pc > Len(Setup) + 4
    /\ PeerLink(2).enabled
    /\ PeerLink(2).src_addr = ReconfAddr(1)

\* each node has the other flagged reachable, over a connected link
BothReachable ==
    \A n \in Nodes : Reachable(nodes[n], 3 - n) /\ PeerLink(n).connected

\* node 1's link is dynamic and enabled and is set to nothing else
Node1Untouched ==
    (test.pc > Len(Setup)) =>
        /\ PeerLink(1).dynamic /\ PeerLink(1).enabled
        /\ LinkConfig(PeerLink(1))' = LinkConfig(PeerLink(1))

SentBy(n) ==
    {Payload(Script[k]) : k \in {j \in 1..(test.pc - 1) :
                                    /\ j <= Len(Script)
                                    /\ Script[j].op = "knet_send_str"
                                    /\ Script[j].node = n}}

\* C21: with dhost_filter on both handles, the payload a receive thread of
\* node n has taken from knet_recv is a string the other node passed to
\* knet_send_str before; every datagram in flight goes to the node that is
\* not its sender and carries a string its sender passed to knet_send_str;
\* and every packet a node's RX worker delivered came from the other node.
C21_DeliveredWasSentByPeer ==
    /\ \A n \in Nodes :
          /\ (test.thread[n].at = "incr") => test.thread[n].payload \in SentBy(3 - n)
          /\ \A k \in 1..Len(nodes[n].window) : nodes[n].window[k].sender = 3 - n
    /\ \A p \in net :
          /\ p.fp.sender \in Nodes
          /\ p.dst = 3 - p.fp.sender
          /\ p.payload \in SentBy(p.fp.sender)

\* the receive thread of node 1 took the string node 2 sent from its second
\* address, which node 1 itself never sent
C21_Witness ==
    /\ test.thread[1].at = "incr"
    /\ test.thread[1].payload = TestString(309)
    /\ test.thread[1].payload \in SentBy(2)
    /\ test.thread[1].payload \notin SentBy(1)
    /\ SentBy(1) # {}

(***************************************************************************)
(* The two handles of the test with their links configured, forwarding     *)
(* switched on and off at any moment while data and probes are under way   *)
(***************************************************************************)

\* the messages a node sends
MaxSend == 1

\* knet_h[n] after the calls of lines 255 to 265: the other node added, the
\* link to it configured and disabled, forwarding off
Configured(n) ==
    knet_link_set_config(knet_host_add(NewHandle, 3 - n).h, 3 - n, 0, 1,
                         IF n = 1 THEN NoAddr ELSE 1).h

\* the receive threads are in knet_recv
FwdInit ==
    /\ CompressIdle
    /\ errno = 0
    /\ LibIdle
    /\ nodes = [n \in Nodes |-> Configured(n)]
    /\ net = {}
    /\ test = [NewTest(0) EXCEPT !.thread = [n \in Nodes |-> RecvThread("recv", 0, "")]]

\* a call on knet_h[n] returned r
FwdReturned(n, r) ==
    /\ nodes' = [nodes EXCEPT ![n] = r.h]
    /\ errno' = r.errno
    /\ UNCHANGED <<cvars, hvars, net, test>>

FwdSetfwd ==
    \E n \in Nodes, enabled \in BOOLEAN :
        FwdReturned(n, knet_handle_setfwd(nodes[n], enabled))

FwdSetEnable ==
    \E n \in Nodes, enabled \in BOOLEAN :
        FwdReturned(n, knet_link_set_enable(nodes[n], 3 - n, 0, enabled))

FwdSend ==
    \E n \in Nodes :
        /\ nodes[n].tx_seq < MaxSend
        /\ LET r == knet_send(nodes[n], n, dhost_filter(n), "Testing") IN
              /\ nodes' = [nodes EXCEPT ![n] = r.h]
              /\ net' = net \cup r.sent
        /\ UNCHANGED <<cvars, errno, hvars, test>>

\* the dst-link worker of a node, no callback being installed
FwdDstLink ==
    /\ \E n \in Nodes :
          \E host_id \in nodes[n].dst_pending :
             DynWorked(n, dst_link_update(nodes[n], host_id).h)
    /\ UNCHANGED test

FwdNext ==
    \/ FwdSetfwd
    \/ FwdSetEnable
    \/ FwdSend
    \/ Recv
    \/ RecvCount
    \/ DynPongReceived
    \/ DynPongTimeout
    \/ FwdDstLink

FwdSpec == FwdInit /\ [][FwdNext]_vars

\* the forwarding flag of node n
Fwd(n) == nodes[n].enabled

\* a step switches the forwarding flag of node n and touches nothing else:
\* no link, no host, no datagram, no thread
OnlyFwdSwitched(n) ==
    /\ nodes'[n] = [nodes[n] EXCEPT !.enabled = ~@]
    /\ nodes'[3 - n] = nodes[3 - n]
    /\ net' = net
    /\ test' = test

\* C22: in every step, a datagram that enters the network was sent by a
\* node whose forwarding flag was on, and a packet is delivered (its
\* fingerprint kept, its payload taken by the receive thread) only on a
\* node whose forwarding flag was on; a step that changes a node's
\* forwarding flag changes nothing but that flag, so every link keeps its
\* enabled and connected state and every host its reachable flag, and the
\* heartbeat's conditions (Probing, CanReach) do not read the flag;
\* knet_handle_setfwd with the value the flag has returns 0 and leaves the
\* handle as it is.
C22_FwdGatesDataOnly ==
    /\ [][\A n \in Nodes :
             /\ \A p \in net' \ net : p.fp.sender = n => Fwd(n)
             /\ (nodes'[n].window # nodes[n].window) => Fwd(n)
             /\ (test'.thread[n].at = "incr" /\ test.thread[n].at = "recv") => Fwd(n)
             /\ (nodes'[n].enabled # nodes[n].enabled) =>
                    /\ OnlyFwdSwitched(n)
                    /\ CanReach(n)' = CanReach(n)
                    /\ Probing(nodes[n], 3 - n, 0)' = Probing(nodes[n], 3 - n, 0)
                    /\ count_nodes(nodes[n])' = count_nodes(nodes[n])
         ]_vars
    /\ [](\A n \in Nodes :
             /\ knet_handle_setfwd(nodes[n], Fwd(n)).h = nodes[n]
             /\ knet_handle_setfwd(nodes[n], Fwd(n)).ret = 0
             /\ knet_handle_setfwd(nodes[n], ~Fwd(n)).h.host_index = nodes[n].host_index)

\* with forwarding off on both nodes, both links got connected and both
\* hosts reachable, while a datagram sent earlier is still in the network
C22_Witness ==
    /\ \A n \in Nodes : ~Fwd(n) /\ PeerLink(n).connected /\ Reachable(nodes[n], 3 - n)
    /\ net # {}
    /\ \A n \in Nodes : nodes[n].tx_seq > 0

(***************************************************************************)
(* tests/fun_dynamic_check.c: dyn_knet_link_set_config looking for a port  *)
(***************************************************************************)

EPROTONOSUPPORT == 93
EADDRINUSE == 98

FirstPort == 1025

\* the last port tried (65535 in the code)
LastPort == 1027

Ports == FirstPort..LastPort

\* what the system does with the call made for a port: it takes the port
\* (0) or refuses with an errno
PortOutcomes == {0, EADDRINUSE, EPROTONOSUPPORT, EINVAL}

\* no port at which knet_strtoaddr fails
NoPort == FirstPort - 1

\* the call's environment: what binding each port gives, and the port (if
\* any) whose conversion by knet_strtoaddr fails, setting errno to EINVAL
PortEnv(ports, bad_port) == [ports |-> ports, bad_port |-> bad_port]

\* knet_link_set_config for a port: the library's own answer (EINVAL, EBUSY,
\* or the link configured) unless the system refuses the port
set_config_at(h, host_id, link_id, dynamic, port, env) ==
    IF env.ports[port] # 0 THEN Fail(env.ports[port], h)
    ELSE knet_link_set_config(h, host_id, link_id, 1, IF dynamic THEN NoAddr ELSE 1)

\* what dyn_knet_link_set_config returns: its value, errno, the handle and
\* the ports it passed to knet_link_set_config
DynResult(ret, err, h, tried) == [ret |-> ret, errno |-> err, h |-> h, tried |-> tried]

\* the loop from port on; err and savederrno as the last pass left them
RECURSIVE dyn_port_loop(_, _, _, _, _, _, _, _, _, _)
dyn_port_loop(h, host_id, link_id, transport, dynamic, env, port, err, savederrno, tried) ==
    IF port > LastPort
    THEN DynResult(err, savederrno, h, tried)
    ELSE IF env.bad_port = port
    THEN DynResult(-1, savederrno, h, tried)
    ELSE LET r == set_config_at(h, host_id, link_id, dynamic, port, env) IN
         IF r.ret < 0 /\ r.errno # EADDRINUSE
         THEN IF r.errno = EPROTONOSUPPORT /\ transport = "SCTP"
              THEN DynResult(-2, r.errno, r.h, Append(tried, port))
              ELSE DynResult(r.ret, r.errno, r.h, Append(tried, port))
         ELSE IF r.ret = 0
         THEN DynResult(r.ret, r.errno, r.h, Append(tried, port))
         ELSE dyn_port_loop(r.h, host_id, link_id, transport, dynamic, env,
                            port + 1, r.ret, r.errno, Append(tried, port))

dyn_knet_link_set_config(h, host_id, link_id, transport, dynamic, env) ==
    dyn_port_loop(h, host_id, link_id, transport, dynamic, env, FirstPort, 0, 0, <<>>)

\* the record of a call of dyn_knet_link_set_config: what it was given, the
\* state of the link before, and what it returned
PortCall(transport, dynamic, env, was, r) ==
    [op |-> "dyn_knet_link_set_config", transport |-> transport, dynamic |-> dynamic,
     env |-> env, was |-> was, ret |-> r.ret, errno |-> r.errno, tried |-> r.tried]

\* the handle with host 1 added, as test() has it at line 262
PortInit ==
    /\ CompressIdle
    /\ errno = 0
    /\ lib = knet_host_add(NewHandle, 1).h
    /\ libcall = NoLibCall
    /\ notes = NoNotes
    /\ DynIdle

DynKnetLinkSetConfig ==
    \E transport \in {"UDP", "SCTP"}, dynamic \in BOOLEAN,
       ports \in [Ports -> PortOutcomes], bad_port \in Ports \cup {NoPort} :
        LET env == PortEnv(ports, bad_port)
            r == dyn_knet_link_set_config(lib, 1, 0, transport, dynamic, env)
        IN  /\ lib' = r.h
            /\ errno' = r.errno
            /\ libcall' = PortCall(transport, dynamic, env, LinkAt(lib, 1, 0), r)
            /\ UNCHANGED <<cvars, notes, dvars>>

\* the test clears the link before it configures it again
PortClearConfig ==
    /\ LibReturned("knet_link_clear_config", 1, 0, 0, knet_link_clear_config(lib, 1, 0))
    /\ UNCHANGED notes

PortNext ==
    \/ DynKnetLinkSetConfig
    \/ PortClearConfig

PortSpec == PortInit /\ [][PortNext]_vars

\* what knet_link_set_config answered for port p in the call recorded
PortAnswer(c, p) ==
    IF c.env.ports[p] # 0 THEN c.env.ports[p]
    ELSE IF c.was.configured THEN EBUSY ELSE 0

\* the port at which the call recorded stopped without calling
\* knet_link_set_config: the conversion of its address failed
ConversionFailed(c) ==
    /\ c.env.bad_port = FirstPort + Len(c.tried)
    /\ c.env.bad_port \in Ports
    /\ \A k \in 1..Len(c.tried) : PortAnswer(c, c.tried[k]) = EADDRINUSE

\* the answers that end the search with an error other than address-in-use
OtherFailure(c, p) ==
    /\ PortAnswer(c, p) \notin {0, EADDRINUSE}
    /\ ~(PortAnswer(c, p) = EPROTONOSUPPORT /\ c.transport = "SCTP")

\* the ports were tried in increasing order from FirstPort, each after its
\* predecessor was in use; 0 is returned exactly at the first port that is
\* accepted; SCTP not supported gives -2; another error of
\* knet_link_set_config is returned with its errno; all ports in use gives
\* a negative value with EADDRINUSE
PortSearch(c) ==
    /\ \A k \in 1..Len(c.tried) : c.tried[k] = FirstPort + k - 1
    /\ \A k \in 1..(Len(c.tried) - 1) : PortAnswer(c, c.tried[k]) = EADDRINUSE
    /\ (c.ret = 0) <=>
          (Len(c.tried) > 0 /\ PortAnswer(c, c.tried[Len(c.tried)]) = 0)
    /\ (Len(c.tried) > 0 /\ c.transport = "SCTP"
          /\ PortAnswer(c, c.tried[Len(c.tried)]) = EPROTONOSUPPORT) =>
          c.ret = -2
    /\ (Len(c.tried) > 0 /\ OtherFailure(c, c.tried[Len(c.tried)])) =>
          (c.ret < 0 /\ c.errno = PortAnswer(c, c.tried[Len(c.tried)]))
    /\ (c.env.bad_port = NoPort /\ \A p \in Ports : PortAnswer(c, p) = EADDRINUSE) =>
          (c.ret < 0 /\ c.errno = EADDRINUSE /\ Len(c.tried) = LastPort - FirstPort + 1)

\* C23: after dyn_knet_link_set_config, the ports were tried in increasing
\* order from 1025, each after its predecessor was refused as in use; 0 is
\* returned exactly at the first port accepted, -2 when SCTP is not
\* supported, a negative value with EADDRINUSE when every port is in use,
\* and on any other failure, that of knet_link_set_config or that of the
\* conversion of the address, a negative value with the errno of the call
\* that failed.
C23_PortSearch ==
    (libcall.op = "dyn_knet_link_set_config") =>
        /\ PortSearch(libcall)
        /\ ConversionFailed(libcall) => (libcall.ret < 0 /\ libcall.errno = EINVAL)

\* the compression selection stored in the handle
Selection(h) ==
    [compress_model |-> h.compress_model, compress_level |-> h.compress_level,
     compress_threshold |-> h.compress_threshold]

\* C24: a call of compress_init that returns an error, and any call of
\* compress_init without a cfg, leaves the handle's compress_model,
\* compress_level and compress_threshold as they were.
C24_FailedInitKeepsSelection ==
    [][(last'.op = "compress_init" /\ (last'.ret < 0 \/ last'.cfg = NullCfg)) =>
          Selection(knet_h') = Selection(knet_h)
      ]_vars

\* with an algorithm selected, compress_init was called with a cfg whose
\* level the module accepted and whose threshold is too high, and failed
C24_Witness ==
    /\ last.op = "compress_init"
    /\ last.ret = -1
    /\ last.cfg # NullCfg
    /\ last.calls # <<>>
    /\ ThresholdTooHigh(last.cfg[1].compress_threshold)
    /\ knet_h.compress_model > 0
    /\ knet_h.compress_threshold # NewThreshold(last.cfg[1].compress_threshold)

(* The wait helpers of the tests: wait_for_nodes_state and wait_for_host,
   run against the dst-link worker that calls the status-change callback *)

ETIMEDOUT == 110

\* no status-change callback is installed
NoCallback == "NULL"

\* the calling thread of a wait helper: fn and pc are its position, target
\* the static of that name, notify_fn the callback installed in the handle,
\* ret the value returned; hit, observed and timed_out remember whether the
\* awaited state held at the caller's check or at a later moment of the call
\* before the timeout expired, whether the caller saw it (at its own check
\* or by the callback's signal), and whether the timeout expired
Waiter(fn, pc, host_id, target, notify_fn, res, ret, hit, observed, timed_out) ==
    [fn |-> fn, pc |-> pc, host_id |-> host_id, target |-> target,
     notify_fn |-> notify_fn, res |-> res, ret |-> ret,
     hit |-> hit, observed |-> observed, timed_out |-> timed_out]

NoWaiter == Waiter("none", "idle", 0, 0, NoCallback, 0, 0, FALSE, FALSE, FALSE)

\* the state a helper waits for holds in the handle
Awaited(w, h) ==
    IF w.fn = "wait_for_nodes_state" THEN count_nodes(h) = w.target
    ELSE HostAt(h, w.host_id).status.reachable

\* one handle with host 1, link 0 configured and enabled, no helper running
WaitInit ==
    /\ CompressIdle
    /\ errno = 0
    /\ lib = knet_link_set_enable(
                knet_link_set_config(knet_host_add(NewHandle, 1).h, 1, 0, 1, 1).h,
                1, 0, TRUE).h
    /\ libcall = NoLibCall
    /\ notes = NoNotes
    /\ nodes = <<>>
    /\ net = {}
    /\ test = NoWaiter

WaitStep(w) ==
    /\ test' = w
    /\ UNCHANGED <<cvars, errno, hvars, nodes, net>>

\* wait_for_nodes_state up to the installation of the callback: target is
\* numnodes - 1 to wait for the nodes to come up, 0 to wait for them to go
\* down
WaitForNodesState ==
    /\ test.pc \in {"idle", "done"}
    /\ \E state \in BOOLEAN :
          LET target == IF state THEN TESTNODES - 1 ELSE 0
              w == Waiter("wait_for_nodes_state", "installed", 0, target,
                          "nodes_notify_callback", 0, 0, FALSE, FALSE, FALSE)
          IN  WaitStep(w)

\* wait_for_host up to the installation of the callback
WaitForHost ==
    /\ test.pc \in {"idle", "done"}
    /\ \E host_id \in CallerHosts :
          /\ HostExists(lib, host_id)
          /\ LET w == Waiter("wait_for_host", "installed", host_id, test.target,
                             "host_notify_callback", 0, 0, FALSE, FALSE, FALSE)
             IN  WaitStep(w)

\* the check of the existing status: if the awaited state holds already the
\* callback is uninstalled and 0 returned, else the caller goes on to lock
\* wait_mutex
WaitCheck ==
    /\ test.pc = "installed"
    /\ WaitStep(IF Awaited(test, lib)
                THEN [test EXCEPT !.pc = "done", !.notify_fn = NoCallback,
                                  !.ret = 0, !.hit = TRUE, !.observed = TRUE]
                ELSE [test EXCEPT !.pc = "checked"])

\* wait_mutex is locked and pthread_cond_timedwait entered
WaitEnter ==
    /\ test.pc = "checked"
    /\ WaitStep([test EXCEPT !.pc = "waiting"])

\* pthread_cond_signal: a thread waiting on wait_cond is woken, and nothing
\* is kept of the signal when none waits
pthread_cond_signal(w) ==
    IF w.pc = "waiting"
    THEN [w EXCEPT !.pc = "awake", !.res = 0, !.observed = TRUE]
    ELSE w

\* nodes_notify_callback and host_notify_callback, called by the dst-link
\* worker with the handle h after the change
notify_callback(w, h, host_id) ==
    IF w.notify_fn = "nodes_notify_callback"
    THEN IF count_nodes(h) = w.target THEN pthread_cond_signal(w) ELSE w
    ELSE IF w.notify_fn = "host_notify_callback"
    THEN IF HostAt(h, host_id).status.reachable THEN pthread_cond_signal(w) ELSE w
    ELSE w

\* the helper is between its check and its return and its timeout has not
\* expired
Waiting(w) == w.pc \in {"checked", "waiting", "awake"} /\ ~w.timed_out

\* the dst-link worker: it updates the reachable flag of a host and calls
\* the callback installed, if the flag changed
WaitDstLink ==
    \E host_id \in lib.dst_pending :
       LET r == dst_link_update(lib, host_id)
           w == IF r.notified = <<>> THEN test
                ELSE notify_callback(test, r.h, host_id)
       IN  /\ lib' = r.h
           /\ libcall' = LibCallRecord("dst_link", host_id, 0, 0, 0, 0, r.notified, <<>>)
           /\ notes' = Noted(notes, r.notified)
           /\ test' = [w EXCEPT !.hit = @ \/ (Waiting(test) /\ Awaited(test, r.h))]
           /\ UNCHANGED <<cvars, errno, nodes, net>>

\* pthread_cond_timedwait ends because the timeout expired: it returns the
\* error number
WaitTimeout ==
    /\ test.pc = "waiting"
    /\ WaitStep([test EXCEPT !.pc = "awake", !.res = ETIMEDOUT, !.timed_out = TRUE])

\* what wait_for_nodes_state returns after the wait
wait_for_nodes_state_ret(res) == res

\* what wait_for_host returns after the wait
wait_for_host_ret(res, err) ==
    IF res = -1 /\ err = ETIMEDOUT THEN -1 ELSE 0

\* after the wait: wait_mutex is unlocked, the callback uninstalled and the
\* helper returns
WaitReturn ==
    /\ test.pc = "awake"
    /\ WaitStep([test EXCEPT !.pc = "done", !.notify_fn = NoCallback,
                             !.ret = IF test.fn = "wait_for_nodes_state"
                                     THEN wait_for_nodes_state_ret(test.res)
                                     ELSE wait_for_host_ret(test.res, errno)])

WaitNext ==
    \/ WaitForNodesState
    \/ WaitForHost
    \/ WaitCheck
    \/ WaitEnter
    \/ WaitDstLink
    \/ WaitTimeout
    \/ WaitReturn
    \/ PongReceived
    \/ PongTimeout

WaitSpec == WaitInit /\ [][WaitNext]_vars

\* C25: wait_for_nodes_state returns 0 whenever the number of reachable
\* hosts equalled the target at some moment of the call before the timeout
\* expired, under every interleaving with the status-change callback
C25_ReturnsZeroWhenTargetWasMet ==
    (test.fn = "wait_for_nodes_state" /\ test.pc = "done" /\ test.hit)
        => test.ret = 0

\* C26: wait_for_host returns 0 only if the host was observed reachable, at
\* the call or by the callback's signal before the deadline, it returns -1
\* when the wait ended by the timeout, and the callback is uninstalled on
\* every return
C26_ZeroOnlyIfObservedReachable ==
    (test.fn = "wait_for_host" /\ test.pc = "done")
        => /\ test.ret = 0 => test.observed
           /\ test.timed_out => test.ret = -1
           /\ test.notify_fn = NoCallback

(* The log thread of the tests: start_logthread and stop_logthread called
   by concurrent threads *)

\* the threads calling start_logthread and stop_logthread, and the calls
\* each of them makes
NumCallers == 2
MaxCalls == 2
Callers == 1..NumCallers

\* log_thread_mutex held by nobody
Unlocked == 0

\* the statics log_thread_mutex, log_thread_init and log_thread (the state
\* of the thread it names), the number of log threads created and not
\* joined, and per caller its position, the calls it made and the value its
\* last call returned
LogState(pc, ret, calls, log_thread_mutex, log_thread_init, log_thread, threads) ==
    [pc |-> pc, ret |-> ret, calls |-> calls,
     log_thread_mutex |-> log_thread_mutex, log_thread_init |-> log_thread_init,
     log_thread |-> log_thread, threads |-> threads]

LogInit ==
    /\ CompressIdle
    /\ errno = 0
    /\ LibIdle
    /\ nodes = <<>>
    /\ net = {}
    /\ test = LogState([t \in Callers |-> "idle"], [t \in Callers |-> 0],
                       [t \in Callers |-> 0], Unlocked, 0, "none", 0)

LogStep(s) ==
    /\ test' = s
    /\ UNCHANGED <<cvars, errno, hvars, nodes, net>>

\* a caller enters start_logthread or stop_logthread
LogCall ==
    \E t \in Callers, fn \in {"start", "stop"} :
       /\ test.pc[t] = "idle"
       /\ test.calls[t] < MaxCalls
       /\ LogStep([test EXCEPT !.pc[t] = fn \o "_lock", !.calls[t] = @ + 1])

\* pthread_mutex_lock(&log_thread_mutex)
LogLock ==
    \E t \in Callers :
       /\ test.pc[t] \in {"start_lock", "stop_lock"}
       /\ test.log_thread_mutex = Unlocked
       /\ LogStep([test EXCEPT !.log_thread_mutex = t,
                               !.pc[t] = IF @ = "start_lock" THEN "start_locked"
                                         ELSE "stop_locked"])

\* start_logthread creating a thread whatever log_thread_init says
must_create_Always(log_thread_init) == TRUE

\* if (!log_thread_init)
must_create(log_thread_init) == log_thread_init = 0

\* start_logthread with the mutex held: pthread_create, which may fail, if
\* no thread was started, else nothing
StartCreate ==
    \E t \in Callers :
       /\ test.pc[t] = "start_locked"
       /\ IF must_create(test.log_thread_init)
          THEN \E created \in BOOLEAN :
                  LogStep(IF created
                          THEN [test EXCEPT !.pc[t] = "start_created",
                                            !.log_thread = "running",
                                            !.threads = @ + 1]
                          ELSE [test EXCEPT !.pc[t] = "unlock", !.ret[t] = -1])
          ELSE LogStep([test EXCEPT !.pc[t] = "unlock", !.ret[t] = 0])

\* log_thread_init = 1
StartSetInit ==
    \E t \in Callers :
       /\ test.pc[t] = "start_created"
       /\ LogStep([test EXCEPT !.pc[t] = "unlock", !.ret[t] = 0,
                               !.log_thread_init = 1])

\* stop_logthread with the mutex held: pthread_cancel if a thread was
\* started, else nothing
StopCancel ==
    \E t \in Callers :
       /\ test.pc[t] = "stop_locked"
       /\ LogStep(IF test.log_thread_init # 0
                  THEN [test EXCEPT !.pc[t] = "stop_join",
                                    !.log_thread = IF @ = "running" THEN "cancelled"
                                                   ELSE @]
                  ELSE [test EXCEPT !.pc[t] = "unlock", !.ret[t] = 0])

\* pthread_join returns once the thread has ended
StopJoin ==
    \E t \in Callers :
       /\ test.pc[t] = "stop_join"
       /\ test.log_thread \in {"halted", "exited"}
       /\ LogStep([test EXCEPT !.pc[t] = "stop_joined", !.log_thread = "none",
                               !.threads = @ - 1])

\* log_thread_init = 0
StopClearInit ==
    \E t \in Callers :
       /\ test.pc[t] = "stop_joined"
       /\ LogStep([test EXCEPT !.pc[t] = "unlock", !.ret[t] = 0,
                               !.log_thread_init = 0])

\* pthread_mutex_unlock(&log_thread_mutex) and return
LogUnlock ==
    \E t \in Callers :
       /\ test.pc[t] = "unlock"
       /\ LogStep([test EXCEPT !.pc[t] = "idle", !.log_thread_mutex = Unlocked])

\* _logthread returns by itself when select fails; it stays to be joined
LogThreadHalts ==
    /\ test.log_thread = "running"
    /\ LogStep([test EXCEPT !.log_thread = "halted"])

\* _logthread, cancelled, ends at its next cancellation point
LogThreadCancelled ==
    /\ test.log_thread = "cancelled"
    /\ LogStep([test EXCEPT !.log_thread = "exited"])

LogNext ==
    \/ LogCall
    \/ LogLock
    \/ StartCreate
    \/ StartSetInit
    \/ StopCancel
    \/ StopJoin
    \/ StopClearInit
    \/ LogUnlock
    \/ LogThreadHalts
    \/ LogThreadCancelled

\* every thread that can make a step makes it in the end
LogSpec ==
    /\ LogInit
    /\ [][LogNext]_vars
    /\ WF_vars(LogLock)
    /\ WF_vars(StartCreate)
    /\ WF_vars(StartSetInit)
    /\ WF_vars(StopCancel)
    /\ WF_vars(StopJoin)
    /\ WF_vars(StopClearInit)
    /\ WF_vars(LogUnlock)
    /\ WF_vars(LogThreadCancelled)

\* the positions of a caller that holds log_thread_mutex
Holding == {"start_locked", "start_created", "stop_locked", "stop_join",
            "stop_joined", "unlock"}

\* at most one log thread exists, the mutex is held by a caller inside one
\* of the two functions and by no caller that returned, and with the mutex
\* free log_thread_init is 1 exactly when a log thread exists
OneLogThread ==
    /\ test.threads <= 1
    /\ \A t \in Callers : test.log_thread_mutex = t <=> test.pc[t] \in Holding
    /\ test.log_thread_mutex = Unlocked
          => (test.log_thread_init = 1 <=> test.threads = 1)

\* the statics the two functions guard
LogThread(s) == <<s.log_thread_init, s.log_thread, s.threads>>

\* a start with a thread started and a stop with none started change
\* nothing and return 0
NoOpCalls ==
    \A t \in Callers :
       (/\ \/ test.pc[t] = "start_locked" /\ test.log_thread_init = 1
           \/ test.pc[t] = "stop_locked" /\ test.log_thread_init = 0
        /\ test'.pc[t] # test.pc[t])
          => /\ LogThread(test') = LogThread(test)
             /\ test'.pc[t] = "unlock"
             /\ test'.ret[t] = 0

\* C27: under any interleaving of start_logthread and stop_logthread calls
\* at most one log thread exists, log_thread_init is 1 exactly when one
\* exists, a start with a thread running and a stop with none are no-ops,
\* and the mutex is released on every return path, a failed pthread_create
\* included, so that every call returns
C27_OneLogThreadAndEveryCallReturns ==
    /\ []OneLogThread
    /\ [][NoOpCalls]_vars
    /\ \A t \in Callers : (test.pc[t] # "idle") ~> (test.pc[t] = "idle")

\* a start failed at pthread_create and returned -1 with the mutex free,
\* after a thread had been started and stopped by the other caller
C27_Witness ==
    /\ test.pc = [t \in Callers |-> "idle"]
    /\ test.ret[1] = -1
    /\ test.calls[2] = 2
    /\ test.log_thread_mutex = Unlocked
    /\ test.threads = 0

(* Starting and stopping the handles of a test: knet_handle_start_nodes and
   knet_handle_stop_nodes *)

\* the nodes a test starts, at most
MaxNodes == 6

\* knet_handle_new_ex: a new handle, if it is created
knet_handle_new_ex(host_id) == HandlePtr(NewHandle)

\* the loop of knet_handle_start_nodes from i on: knet_hs holds the slots
\* 1..i-1, created[i] says whether knet_handle_new_ex(i, ...) gives a
\* handle; the loop is left at the first slot that is NULL, with that i
RECURSIVE start_nodes_loop(_, _, _, _)
start_nodes_loop(knet_hs, numnodes, i, created) ==
    IF i > numnodes THEN [knet_h |-> knet_hs, i |-> i]
    ELSE IF ~created[i] THEN [knet_h |-> Append(knet_hs, NullHandle), i |-> i]
    ELSE start_nodes_loop(Append(knet_hs, knet_handle_new_ex(i)), numnodes, i + 1,
                          created)

\* knet_handle_stop_nodes: knet_handle_stop on the slots 1..numnodes, which
\* answers EINVAL for a NULL handle
knet_handle_stop_nodes(knet_hs, numnodes) ==
    [k \in 1..Len(knet_hs) |->
        IF k <= numnodes /\ knet_hs[k] # NullHandle
        THEN HandlePtr(knet_handle_stop(knet_hs[k]).h)
        ELSE knet_hs[k]]

\* knet_handle_start_nodes: it returns to its caller or ends the process
\* with exit(FAIL)
knet_handle_start_nodes(numnodes, created) ==
    LET l == start_nodes_loop(<<>>, numnodes, 1, created) IN
    IF l.i < numnodes
    THEN [knet_h |-> knet_handle_stop_nodes(l.knet_h, l.i), exit |-> "FAIL"]
    ELSE [knet_h |-> l.knet_h, exit |-> "none"]

\* no call was made yet
StartInit ==
    /\ CompressIdle
    /\ errno = 0
    /\ LibIdle
    /\ nodes = <<>>
    /\ net = {}
    /\ test = [op |-> "none", numnodes |-> 0, created |-> <<>>, exit |-> "none"]

\* a test calls knet_handle_start_nodes, any of the creations failing
KnetHandleStartNodes ==
    /\ test.exit = "none"
    /\ \E numnodes \in 1..MaxNodes :
          \E created \in [1..numnodes -> BOOLEAN] :
             LET r == knet_handle_start_nodes(numnodes, created) IN
             /\ nodes' = r.knet_h
             /\ test' = [op |-> "knet_handle_start_nodes", numnodes |-> numnodes,
                         created |-> created, exit |-> r.exit]
    /\ UNCHANGED <<cvars, errno, hvars, net>>

StartNext == KnetHandleStartNodes

StartSpec == StartInit /\ [][StartNext]_vars

\* slot k of knet_h holds no handle
Missing(k) == k > Len(nodes) \/ nodes[k] = NullHandle

\* every handle that was created is stopped
CreatedAreStopped ==
    \A k \in 1..Len(nodes) : nodes[k] # NullHandle => nodes[k][1].freed

\* C28: knet_handle_start_nodes either returns with a handle in every slot
\* 1..numnodes, or stops the handles it created and exits with FAIL; it
\* never returns with a missing handle, whichever creation fails
C28_AllHandlesOrExit ==
    test.op = "knet_handle_start_nodes"
        => \/ test.exit = "none" /\ \A k \in 1..test.numnodes : ~Missing(k)
           \/ test.exit = "FAIL" /\ CreatedAreStopped

====
